---- MODULE Spec2Model ----
(***************************************************************************)
(* Extent store of fvdecheck (fvdecheck_extent.c / fvdecheck_extent.h) and *)
(* the volume walker of check_handle.c that populates it.                  *)
(*                                                                         *)
(* Extents live in a heap (a sequence of records); an extent pointer is    *)
(* the index of its record, NULL is 0.  Extents are never freed before the *)
(* whole state is destroyed, so a new extent always gets the next index    *)
(* and the index order is the order of insertion.  The provenance fields   *)
(* (transaction_id, metadata_block_index, block_type) and the uuid bytes   *)
(* are written once and never read by the store; they are left out.        *)
(***************************************************************************)
EXTENDS Integers, Sequences, FiniteSets, TLC

\* ---------------------------------------------------------------- constants
FVDECHECK_MAX_PHYSICAL_VOLUMES == 16
FVDECHECK_MAX_LOGICAL_VOLUMES == 16

FVDECHECK_EXTENT_STATE_UNKNOWN == 0
FVDECHECK_EXTENT_STATE_FREE == 1
FVDECHECK_EXTENT_STATE_ALLOCATED == 2
FVDECHECK_EXTENT_STATE_RESERVED == 3

\* ( *volume_state )->block_size = 4096
DEFAULT_BLOCK_SIZE == 4096

NULL == 0

\* ------------------------------------------------------------------- bounds
\* extents the store specification marks before it stops offering marks
MaxExtents == 3
\* segment descriptors the Unlocker yields during one walk
MaxSegments == 2

\* volume indices offered to the operations; the store specification adds a
\* volume while its index is in PVSlots / LVSlots, so the largest index
\* offered by PVIndexes / LVIndexes is always out of bounds
PVSlots == {0}
LVSlots == {0}
PVIndexes == {0, 1}
LVIndexes == {0, 1}
\* block numbers and counts offered to the mark operations
Starts == {0, 1}
Counts == {0, 2}
LStarts == {0, 1}
\* mark_free and mark_allocated are offered fewer ranges than mark_reserved
FreeStarts == {1}
FreeCounts == {2}
AllocCounts == {2}
\* arguments of the queries
QueryStarts == {0, 1, 2, 3}
QueryCounts == {0, 1, 2}
\* volume sizes in blocks offered to add_physical_volume / add_logical_volume
PVSizes == {8}
LVSizes == {3}

\* What the opened volume and the Unlocker can yield to the walker.
WalkPVCounts == {1, 2}
WalkLVCounts == {0, 1, 2}
PVSizeBytes == {16 * DEFAULT_BLOCK_SIZE}
LVSizeBytes == {4 * DEFAULT_BLOCK_SIZE}
\* struct libfvde_volume_header: block_size, metadata_size, metadata_offsets[ 4 ]
VolumeHeaders ==
    { [block_size |-> block_size,
       metadata_size |-> 2 * DEFAULT_BLOCK_SIZE,
       metadata_offsets |-> offsets] :
      block_size \in {DEFAULT_BLOCK_SIZE, DEFAULT_BLOCK_SIZE \div 2},
      offsets \in { <<1 * DEFAULT_BLOCK_SIZE, 3 * DEFAULT_BLOCK_SIZE,
                      5 * DEFAULT_BLOCK_SIZE, 7 * DEFAULT_BLOCK_SIZE>> } }
NoVolumeHeader == [block_size |-> 0, metadata_size |-> 0, metadata_offsets |-> <<0, 0, 0, 0>>]
\* struct libfvde_metadata; `present` is FALSE for internal_volume->metadata == NULL
NoMetadata ==
    [present |-> FALSE, encrypted_metadata_size |-> 0,
     encrypted_metadata1_offset |-> 0, encrypted_metadata2_offset |-> 0]
Metadatas ==
    {NoMetadata} \cup
    { [present |-> TRUE,
       encrypted_metadata_size |-> DEFAULT_BLOCK_SIZE,
       encrypted_metadata1_offset |-> o1,
       encrypted_metadata2_offset |-> o2] :
      o1 \in {0, 9 * DEFAULT_BLOCK_SIZE}, o2 \in {0, 10 * DEFAULT_BLOCK_SIZE} } \cup
    { [present |-> TRUE,
       encrypted_metadata_size |-> 0,
       encrypted_metadata1_offset |-> 9 * DEFAULT_BLOCK_SIZE,
       encrypted_metadata2_offset |-> 10 * DEFAULT_BLOCK_SIZE] }
\* libfvde_segment_descriptor_t; `present` is FALSE for a NULL descriptor
SegmentDescriptors ==
    { [present |-> FALSE, physical_volume_index |-> 0, physical_block_number |-> 0,
       number_of_blocks |-> 0, logical_block_number |-> 0] } \cup
    [present : {TRUE},
     physical_volume_index : {0, 1},
     physical_block_number : {2, 12, 14},
     number_of_blocks : {0, 2},
     logical_block_number : {0, 3}]

\* What the fvdecheck command line selects (-j, -m, -s) and the number of
\* segment descriptors the logical volumes of the opened volume hold.
NoOptions ==
    [main |-> FALSE, json_mode |-> FALSE, dump_allocation_map |-> FALSE,
     lookup_linux_sector_set |-> FALSE, lookup_linux_sector |-> 0, descriptors |-> 0]
MainOptions ==
    [main : {TRUE}, json_mode : BOOLEAN, dump_allocation_map : BOOLEAN,
     lookup_linux_sector_set : {FALSE}, lookup_linux_sector : {0}, descriptors : {0, 1, 2}] \cup
    [main : {TRUE}, json_mode : BOOLEAN, dump_allocation_map : BOOLEAN,
     lookup_linux_sector_set : {TRUE}, lookup_linux_sector : {0, 8, 16}, descriptors : {0, 1, 2}]

VARIABLES volume_state, heap, result, walk, dump_handle, disk, dump,
          dmsetup, keyring, check_handle

check_vars == <<volume_state, heap, result, walk>>
dump_vars == <<dump_handle, disk, dump>>
key_vars == <<dmsetup, keyring, check_handle>>
vars == <<volume_state, heap, result, walk, dump_handle, disk, dump, dmsetup, keyring, check_handle>>

\* -------------------------------------------------------- bytes and words
\* A buffer is a tuple of bytes; C index k is element k + 1. A uint32_t or
\* uint64_t taken from a buffer is the tuple of its bytes, least significant
\* first.
FVDE_VOLUME_HEADER_SIZE == 512

CopyBufferSize == 64 * 1024

Bytes(data, offset, size) == [k \in 1 .. size |-> data[offset + k]]

byte_stream_copy_to_uint32_little_endian(data, offset) == Bytes(data, offset, 4)

byte_stream_copy_to_uint64_little_endian(data, offset) == Bytes(data, offset, 8)

\* An access to `size` bytes at `index` of a buffer of buffer_size bytes stays
\* inside the buffer. An index computed in uint32_t arithmetic that wrapped
\* to 2^31 or more is negative here and lies far past the buffer.
InBuffer(index, size, buffer_size) == index >= 0 /\ index + size <= buffer_size

\* What an access outside an allocated buffer does is undefined: the process
\* is killed, or the access reaches whatever the heap holds there. The heaps
\* taken are all zero, or hold `value` in every eighth byte.
OutOfBoundsOutcomes ==
    {[crash |-> TRUE, value |-> 0], [crash |-> FALSE, value |-> 0], [crash |-> FALSE, value |-> 7]}

\* The outcome that matters when every access stays inside its buffer
NothingBeyond == [crash |-> FALSE, value |-> 0]

BeyondByte(index, beyond) == IF index % 8 = 0 THEN beyond.value ELSE 0

\* The `size` bytes read at `index` of a buffer holding `data`
ReadBeyond(data, index, size, beyond) ==
    [k \in 1 .. size |-> IF index >= 0 /\ index + k <= Len(data) THEN data[index + k]
                         ELSE BeyondByte(index + (k - 1), beyond)]

byte_stream_copy_from_uint32_little_endian(data, offset, value) ==
    [data EXCEPT ![offset + 1] = value[1], ![offset + 2] = value[2],
                 ![offset + 3] = value[3], ![offset + 4] = value[4]]

byte_stream_copy_from_uint64_little_endian(data, offset, value) ==
    [data EXCEPT ![offset + 1] = value[1], ![offset + 2] = value[2],
                 ![offset + 3] = value[3], ![offset + 4] = value[4],
                 ![offset + 5] = value[5], ![offset + 6] = value[6],
                 ![offset + 7] = value[7], ![offset + 8] = value[8]]

\* The buffer after the 8 bytes of `value` were stored at `index`: a store
\* outside the buffer leaves the buffer as it is.
StoreBeyond(data, index, value) ==
    IF InBuffer(index, 8, Len(data))
    THEN byte_stream_copy_from_uint64_little_endian(data, index, value)
    ELSE data

\* The number a tuple of bytes stands for; the values the model handles
\* are below 2^31.
RECURSIVE Number(_)
Number(bytes) == IF bytes = <<>> THEN 0 ELSE bytes[1] + 256 * Number(Tail(bytes))

\* The `size` bytes of a number, least significant first.
RECURSIVE LittleEndian(_, _)
LittleEndian(value, size) ==
    IF size = 0 THEN <<>> ELSE <<value % 256>> \o LittleEndian(value \div 256, size - 1)

\* A uint32_t as the integer of the same 32 bits in two's complement, so
\* that + and - wrap as they do in C; values from 2^31 on are negative.
Uint32(bytes) ==
    bytes[1] + 256 * bytes[2] + 65536 * bytes[3]
      + 16777216 * (IF bytes[4] >= 128 THEN bytes[4] - 256 ELSE bytes[4])

\* a > b and a <= b on uint32_t values in that representation
Uint32Greater(a, b) ==
    IF (a < 0) = (b < 0) THEN a > b ELSE a < 0

Uint32LessEqual(a, b) == ~Uint32Greater(a, b)

RECURSIVE BitXor(_, _, _)
BitXor(a, b, bits) ==
    IF bits = 0 THEN 0
    ELSE (((a % 2) + (b % 2)) % 2) + 2 * BitXor(a \div 2, b \div 2, bits - 1)

\* a ^ b on bytes
XorByte == [a \in 0 .. 255 |-> [b \in 0 .. 255 |-> BitXor(a, b, 8)]]

Xor32(x, y) ==
    <<XorByte[x[1]][y[1]], XorByte[x[2]][y[2]], XorByte[x[3]][y[3]], XorByte[x[4]][y[4]]>>

\* checksum >> 1
ShiftRight1(x) ==
    <<(x[1] \div 2) + (x[2] % 2) * 128, (x[2] \div 2) + (x[3] % 2) * 128,
      (x[3] \div 2) + (x[4] % 2) * 128, x[4] \div 2>>

\* The inner loop of dump_handle_initialize_crc32_table for one table index.
RECURSIVE Crc32TableEntry(_, _, _)
Crc32TableEntry(polynomial, checksum, bit_iterator) ==
    IF bit_iterator = 8 THEN checksum
    ELSE Crc32TableEntry(polynomial,
                         IF checksum[1] % 2 = 1
                         THEN Xor32(polynomial, ShiftRight1(checksum))
                         ELSE ShiftRight1(checksum),
                         bit_iterator + 1)

dump_handle_initialize_crc32_table(polynomial) ==
    [table_index \in 0 .. 255 |-> Crc32TableEntry(polynomial, <<table_index, 0, 0, 0>>, 0)]

\* the table for polynomial 0x82f63b78
crc32_table == dump_handle_initialize_crc32_table(<<120, 59, 246, 130>>)

\* One iteration of the loop of dump_handle_calculate_weak_crc32.
WeakCrc32Step(checksum, byte) ==
    LET table_entry == crc32_table[XorByte[checksum[1]][byte]]
    IN  <<XorByte[table_entry[1]][checksum[2]], XorByte[table_entry[2]][checksum[3]],
          XorByte[table_entry[3]][checksum[4]], table_entry[4]>>

\* The checksum of the `size` bytes of `buffer` from C index `offset` on;
\* the loop over the bytes is evaluated by halves, in the same order.
RECURSIVE dump_handle_calculate_weak_crc32(_, _, _, _)
dump_handle_calculate_weak_crc32(buffer, offset, size, initial_value) ==
    IF size = 0 THEN initial_value
    ELSE IF size = 1 THEN WeakCrc32Step(initial_value, buffer[offset + 1])
    ELSE LET half == size \div 2
             checksum == dump_handle_calculate_weak_crc32(buffer, offset, half, initial_value)
         IN  IF checksum[1] >= 0
             THEN dump_handle_calculate_weak_crc32(buffer, offset + half, size - half, checksum)
             ELSE checksum

\* ------------------------------------------------------- the source image
\* A Core Storage physical volume as fvdedump reads it, given by the values
\* of the fields the code looks at; every other byte is filler.
InitialValueOnes == <<255, 255, 255, 255>>
InitialValueOther == <<120, 86, 52, 18>>

\* One metadata block: its transaction identifier, checksum initial value,
\* volume_groups_descriptor_offset (a uint32_t) and the descriptor's fields.
MetadataBlock(transaction_identifier, initial_value, descriptor_offset, size_in_blocks, block_number1, block_number2, volume_index) ==
    [transaction_identifier |-> transaction_identifier,
     initial_value |-> initial_value,
     volume_groups_descriptor_offset |-> descriptor_offset,
     encrypted_metadata_size |-> size_in_blocks,
     encrypted_metadata1_block_number |-> block_number1,
     encrypted_metadata2_block_number |-> block_number2,
     volume_index |-> volume_index]

NoDescriptorBlock(transaction_identifier) ==
    MetadataBlock(transaction_identifier, InitialValueOnes, <<0, 0, 0, 0>>, 0, 0, 0, 0)

Image(name, block_size, metadata_size, initial_value, blocks) ==
    [name |-> name,
     physical_volume_size |-> 400 * 4096,
     block_size |-> block_size,
     metadata_size |-> metadata_size,
     initial_value |-> initial_value,
     metadata_block_numbers |-> <<2, 10, 20, 30>>,
     blocks |-> blocks]

SourceImages ==
    { Image("standard", 4096, 8192, InitialValueOnes,
            << MetadataBlock(3, InitialValueOnes, LittleEndian(256, 4), 48, 100, 200, 0),
               MetadataBlock(7, InitialValueOnes, LittleEndian(512, 4), 48, 100, 200, 1),
               NoDescriptorBlock(5),
               MetadataBlock(1, InitialValueOnes, LittleEndian(8192 - 48, 4), 48, 100, 200, 0) >>),
      Image("other initial value", 4096, 8192, InitialValueOther,
            << MetadataBlock(9, InitialValueOther, LittleEndian(256, 4), 4, 100, 200, 0),
               NoDescriptorBlock(2), NoDescriptorBlock(1), NoDescriptorBlock(3) >>),
      Image("large metadata", 4096, 16384, InitialValueOnes,
            << MetadataBlock(9, InitialValueOnes, LittleEndian(256, 4), 4, 100, 200, 0),
               NoDescriptorBlock(2), NoDescriptorBlock(1), NoDescriptorBlock(3) >>),
      Image("unaligned metadata", 4096, 10240, InitialValueOnes,
            << MetadataBlock(9, InitialValueOnes, LittleEndian(256, 4), 4, 100, 200, 0),
               NoDescriptorBlock(2), NoDescriptorBlock(1), NoDescriptorBlock(3) >>),
      Image("encrypted metadata 2 only", 4096, 8192, InitialValueOnes,
            << NoDescriptorBlock(0),
               MetadataBlock(9, InitialValueOnes, LittleEndian(256, 4), 4, 0, 200, 0),
               NoDescriptorBlock(2), NoDescriptorBlock(3) >>),
      Image("encrypted metadata 1 only", 4096, 8192, InitialValueOnes,
            << MetadataBlock(9, InitialValueOnes, LittleEndian(256, 4), 4, 100, 0, 0),
               NoDescriptorBlock(2), NoDescriptorBlock(1), NoDescriptorBlock(3) >>),
      Image("no encrypted metadata", 4096, 8192, InitialValueOnes,
            << NoDescriptorBlock(4), NoDescriptorBlock(2), NoDescriptorBlock(1),
               NoDescriptorBlock(3) >>),
      Image("stale descriptor", 4096, 8192, InitialValueOnes,
            << MetadataBlock(3, InitialValueOnes, LittleEndian(256, 4), 4, 100, 200, 0),
               NoDescriptorBlock(9), NoDescriptorBlock(2), NoDescriptorBlock(1) >>),
      Image("descriptor past the end", 4096, 8192, InitialValueOnes,
            << MetadataBlock(9, InitialValueOnes, LittleEndian(8192 - 40, 4), 4, 100, 200, 0),
               MetadataBlock(1, InitialValueOnes, <<216, 255, 255, 255>>, 4, 100, 200, 0),
               NoDescriptorBlock(2), NoDescriptorBlock(3) >>),
      Image("small metadata", 4096, 4096, InitialValueOnes,
            << MetadataBlock(9, InitialValueOnes, LittleEndian(256, 4), 4, 100, 200, 0),
               NoDescriptorBlock(2), NoDescriptorBlock(1), NoDescriptorBlock(3) >>),
      Image("descriptor outside the block", 4096, 8192, InitialValueOnes,
            << MetadataBlock(9, InitialValueOnes, LittleEndian(256, 4), 4, 100, 200, 0),
               MetadataBlock(1, InitialValueOnes, LittleEndian(8192 - 40, 4), 4, 100, 200, 0),
               MetadataBlock(1, InitialValueOnes, <<224, 255, 255, 255>>, 4, 100, 200, 0),
               NoDescriptorBlock(3) >>),
      [Image("blocks smaller than the header", 256, 8192, InitialValueOnes,
             << MetadataBlock(9, InitialValueOnes, LittleEndian(256, 4), 4, 200, 300, 0),
                NoDescriptorBlock(2), NoDescriptorBlock(1), NoDescriptorBlock(3) >>)
         EXCEPT !.metadata_block_numbers = <<2, 40, 80, 120>>] }

NoImage == Image("", 0, 0, <<0, 0, 0, 0>>, <<>>)

\* The 512 bytes at offset 0 of the source.
SourceVolumeHeader(image) ==
    LET filler == [k \in 1 .. FVDE_VOLUME_HEADER_SIZE |-> (7 * k + 3) % 256]
        b1 == byte_stream_copy_from_uint32_little_endian(filler, 4, image.initial_value)
        b2 == byte_stream_copy_from_uint64_little_endian(
                  b1, 72, LittleEndian(image.physical_volume_size, 8))
        b3 == [b2 EXCEPT ![88 + 1] = 67, ![89 + 1] = 83]
        b4 == byte_stream_copy_from_uint32_little_endian(
                  b3, 96, LittleEndian(image.block_size, 4))
        b5 == byte_stream_copy_from_uint32_little_endian(
                  b4, 100, LittleEndian(image.metadata_size, 4))
        b6 == byte_stream_copy_from_uint64_little_endian(
                  b5, 104, LittleEndian(image.metadata_block_numbers[1], 8))
        b7 == byte_stream_copy_from_uint64_little_endian(
                  b6, 112, LittleEndian(image.metadata_block_numbers[2], 8))
        b8 == byte_stream_copy_from_uint64_little_endian(
                  b7, 120, LittleEndian(image.metadata_block_numbers[3], 8))
    IN  byte_stream_copy_from_uint64_little_endian(
            b8, 128, LittleEndian(image.metadata_block_numbers[4], 8))

\* A block number with the physical volume index in its high 16 bits.
BlockNumberField(block_number, volume_index) ==
    LittleEndian(block_number, 6) \o LittleEndian(volume_index, 2)

\* The metadata_size bytes of metadata copy `index` (1..4) of the source.
SourceMetadata(image, index) ==
    LET block == image.blocks[index]
        descriptor == Uint32(block.volume_groups_descriptor_offset)
        filler == [k \in 1 .. image.metadata_size |-> (13 * k + index) % 256]
        b1 == byte_stream_copy_from_uint32_little_endian(filler, 4, block.initial_value)
        b2 == byte_stream_copy_from_uint64_little_endian(
                  b1, 16, LittleEndian(block.transaction_identifier, 8))
        b3 == byte_stream_copy_from_uint32_little_endian(
                  b2, 220, block.volume_groups_descriptor_offset)
        Fits(field) == descriptor > 64 /\ descriptor + field + 8 <= image.metadata_size
        b4 == IF Fits(8)
              THEN byte_stream_copy_from_uint64_little_endian(
                       b3, descriptor + 8, LittleEndian(block.encrypted_metadata_size, 8))
              ELSE b3
        b5 == IF Fits(32)
              THEN byte_stream_copy_from_uint64_little_endian(
                       b4, descriptor + 32,
                       BlockNumberField(block.encrypted_metadata1_block_number,
                                        block.volume_index))
              ELSE b4
    IN  IF Fits(40)
        THEN byte_stream_copy_from_uint64_little_endian(
                 b5, descriptor + 40,
                 BlockNumberField(block.encrypted_metadata2_block_number,
                                  block.volume_index))
        ELSE b5

\* What read() returns for the metadata_size bytes at `offset` of the source.
SourceMetadataAt(image, offset) ==
    SourceMetadata(image, CHOOSE index \in 1 .. 4 :
                              image.metadata_block_numbers[index] * image.block_size = offset)

\* ---------------------------------------------------------- the dump handle
\* memory_set( ..., 0, sizeof( dump_handle_t ) ), both descriptors -1
dump_handle_initialize ==
    [source_fd |-> -1,
     destination_fd |-> -1,
     physical_volume_size |-> 0,
     block_size |-> 0,
     metadata_size |-> 0,
     metadata_offsets |-> <<0, 0, 0, 0>>,
     encrypted_metadata1_offset |-> 0,
     encrypted_metadata2_offset |-> 0,
     encrypted_metadata_size |-> 0,
     force |-> 0,
     compact |-> 0,
     bytes_copied |-> 0,
     abort |-> 0]

\* A file of the destination file system: whether the path exists, its
\* length and the writes it received since it was created or truncated. A
\* write made of bytes read from the source names their source offset; a
\* write of a corrected buffer carries the buffer.
NoFile == [exists |-> FALSE, length |-> 0, writes |-> <<>>]
ExistingFile ==
    [exists |-> TRUE, length |-> 7,
     writes |-> <<[offset |-> 0, size |-> 7, source_offset |-> -1,
                   data |-> <<111, 108, 100, 100, 117, 109, 112>>]>>]

NoDisk == [image |-> NoImage, destination |-> NoFile]

\* No copy in progress.
NoCopy ==
    [region |-> "", source_offset |-> 0, destination_offset |-> 0, size |-> 0,
     remaining |-> 0, bytes_to_copy |-> 0, written |-> 0, status |-> "none",
     signalled_at |-> -1]

NoDump ==
    [pc |-> "idle", rc |-> 0, metadata_index |-> 0, current_offset |-> 0,
     copy |-> NoCopy, return_pc |-> "idle", advance |-> 0, accesses |-> {}]

\* fvdedump is not running.
DumpIdle ==
    /\ dump_handle = dump_handle_initialize
    /\ disk = NoDisk
    /\ dump = NoDump

\* ------------------------------------------------- key material: records
\* uint8_t key_data[ 16 ] of a check handle and uint8_t combined_key[ 48 ] of
\* keyring_handle_add_key
Zeros(size) == [k \in 1 .. size |-> 0]

\* The check handle after check_handle_initialize: memory_set( ..., 0, ... )
check_handle_initialize ==
    [allocated |-> TRUE, key_data |-> Zeros(16), key_data_size |-> 0, abort |-> 0, rc |-> 0]

\* No logical volume was processed and keyring_handle_add_key was not called.
NoAddKey == [called |-> FALSE, copied |-> FALSE, rc |-> 0, path |-> "", combined_key |-> <<>>]

NoDmsetupOptions ==
    [dry_run |-> 0, shell_mode |-> 0, keyring_id |-> [null |-> TRUE, string |-> <<>>],
     mapper_name |-> [null |-> TRUE, string |-> ""],
     source_path |-> [null |-> TRUE, string |-> ""], volume_offset |-> 0]

NoDmsetup ==
    [pc |-> "idle", rc |-> "", options |-> NoDmsetupOptions, logical_volumes |-> <<>>,
     logical_volume_index |-> 0, effective_mapper_name |-> "", stdout |-> <<>>,
     add_key |-> NoAddKey]

\* fvdedmsetup is not running and no key was set on a check handle.
KeysIdle ==
    /\ dmsetup = NoDmsetup
    /\ keyring = <<>>
    /\ check_handle = check_handle_initialize

\* ------------------------------------------------------------- data records
\* memory_set( ..., 0, sizeof( fvdecheck_volume_state_t ) )
ZeroPhysicalVolume ==
    [size_in_blocks |-> 0, extent_list_head |-> NULL, extent_list_tail |-> NULL,
     reserved_blocks |-> 0, allocated_blocks |-> 0, free_blocks |-> 0]

ZeroLogicalVolume ==
    [size_in_blocks |-> 0, extent_list_head |-> NULL, extent_list_tail |-> NULL,
     mapped_blocks |-> 0, unmapped_blocks |-> 0]

\* fvdecheck_volume_state_initialize: zeroed structure, block_size = 4096.
\* physical_volumes / logical_volumes hold the entries below
\* num_physical_volumes / num_logical_volumes; the array slots above them are
\* never read before add_*_volume has written them.
fvdecheck_volume_state_initialize ==
    [num_physical_volumes |-> 0,
     physical_volumes |-> [i \in {} |-> ZeroPhysicalVolume],
     num_logical_volumes |-> 0,
     logical_volumes |-> [i \in {} |-> ZeroLogicalVolume],
     block_size |-> DEFAULT_BLOCK_SIZE,
     error_count |-> 0,
     warning_count |-> 0,
     total_extents |-> 0]

\* fvdecheck_extent_initialize: a zeroed extent record
fvdecheck_extent_initialize ==
    [physical_volume_index |-> 0, physical_block_start |-> 0, physical_block_count |-> 0,
     logical_volume_index |-> 0, logical_block_start |-> 0,
     phys_prev |-> NULL, phys_next |-> NULL,
     logical_prev |-> NULL, logical_next |-> NULL,
     state |-> FVDECHECK_EXTENT_STATE_UNKNOWN]

\* Variant with an off-by-one capacity test (> where the code has >=).
add_physical_volume_off_by_one(vs, size_in_blocks) ==
    IF vs.num_physical_volumes > FVDECHECK_MAX_PHYSICAL_VOLUMES
    THEN [vs |-> vs, rc |-> -1, index |-> -1]
    ELSE LET new_index == vs.num_physical_volumes
         IN  [vs |-> [vs EXCEPT !.physical_volumes =
                                     [i \in (DOMAIN @) \cup {new_index} |->
                                        IF i = new_index
                                        THEN [ZeroPhysicalVolume EXCEPT !.size_in_blocks = size_in_blocks]
                                        ELSE @[i]],
                                !.num_physical_volumes = @ + 1],
              rc |-> 1, index |-> new_index]

\* ------------------------------------------------------------ add volumes
\* Returns the new state, the return code and the index written to *pv_index.
fvdecheck_volume_state_add_physical_volume(vs, size_in_blocks) ==
    IF vs.num_physical_volumes >= FVDECHECK_MAX_PHYSICAL_VOLUMES
    THEN [vs |-> vs, rc |-> -1, index |-> -1]
    ELSE LET new_index == vs.num_physical_volumes
         IN  [vs |-> [vs EXCEPT !.physical_volumes =
                                     [i \in (DOMAIN @) \cup {new_index} |->
                                        IF i = new_index
                                        THEN [ZeroPhysicalVolume EXCEPT !.size_in_blocks = size_in_blocks]
                                        ELSE @[i]],
                                !.num_physical_volumes = @ + 1],
              rc |-> 1, index |-> new_index]

fvdecheck_volume_state_add_logical_volume(vs, size_in_blocks) ==
    IF vs.num_logical_volumes >= FVDECHECK_MAX_LOGICAL_VOLUMES
    THEN [vs |-> vs, rc |-> -1, index |-> -1]
    ELSE LET new_index == vs.num_logical_volumes
         IN  [vs |-> [vs EXCEPT !.logical_volumes =
                                     [i \in (DOMAIN @) \cup {new_index} |->
                                        IF i = new_index
                                        THEN [ZeroLogicalVolume EXCEPT !.size_in_blocks = size_in_blocks]
                                        ELSE @[i]],
                                !.num_logical_volumes = @ + 1],
              rc |-> 1, index |-> new_index]

\* Variant of the search loop that stops at an equal start (<= where the
\* code has <), so that a new extent goes before its ties.
RECURSIVE PhysInsertionPoint_before_ties(_, _, _)
PhysInsertionPoint_before_ties(hp, current, key) ==
    IF current = NULL THEN NULL
    ELSE IF key <= hp[current].physical_block_start THEN current
    ELSE PhysInsertionPoint_before_ties(hp, hp[current].phys_next, key)

\* ------------------------------------------------------- sorted insertion
\* The search loop of fvdecheck_insert_extent_physical: the first extent from
\* `current` on whose physical_block_start is greater than `key`, NULL when
\* the end of the list is reached.
RECURSIVE PhysInsertionPoint(_, _, _)
PhysInsertionPoint(hp, current, key) ==
    IF current = NULL THEN NULL
    ELSE IF key < hp[current].physical_block_start THEN current
    ELSE PhysInsertionPoint(hp, hp[current].phys_next, key)

\* Links extent `extent` of heap `hp` into the list of physical volume
\* pv_index; returns the volume state and the heap.
\* Variant of the physical insertion that links an extent in front of
\* `current` without making it the predecessor of `current`.
insert_extent_physical_no_back_link(vs, hp, pv_index, extent) ==
    IF extent = NULL \/ pv_index >= vs.num_physical_volumes
    THEN [vs |-> vs, hp |-> hp]
    ELSE LET pv_info == vs.physical_volumes[pv_index] IN
         IF pv_info.extent_list_head = NULL
         THEN [vs |-> [vs EXCEPT !.physical_volumes[pv_index].extent_list_head = extent,
                                 !.physical_volumes[pv_index].extent_list_tail = extent],
               hp |-> [hp EXCEPT ![extent].phys_prev = NULL,
                                 ![extent].phys_next = NULL]]
         ELSE LET current == PhysInsertionPoint(hp, pv_info.extent_list_head,
                                                hp[extent].physical_block_start) IN
              IF current # NULL
              THEN LET prev == hp[current].phys_prev
                       hp1  == [hp EXCEPT ![extent].phys_prev = prev,
                                          ![extent].phys_next = current]
                       hp2  == IF prev # NULL
                               THEN [hp1 EXCEPT ![prev].phys_next = extent]
                               ELSE hp1
                       vs2  == IF prev # NULL
                               THEN vs
                               ELSE [vs EXCEPT !.physical_volumes[pv_index].extent_list_head = extent]
                   IN  [vs |-> vs2, hp |-> hp2]
              ELSE LET tail == pv_info.extent_list_tail
                   IN  [vs |-> [vs EXCEPT !.physical_volumes[pv_index].extent_list_tail = extent],
                        hp |-> [hp EXCEPT ![extent].phys_prev = tail,
                                          ![extent].phys_next = NULL,
                                          ![tail].phys_next = extent]]

fvdecheck_insert_extent_physical(vs, hp, pv_index, extent) ==
    IF extent = NULL \/ pv_index >= vs.num_physical_volumes
    THEN [vs |-> vs, hp |-> hp]
    ELSE LET pv_info == vs.physical_volumes[pv_index] IN
         IF pv_info.extent_list_head = NULL
         THEN [vs |-> [vs EXCEPT !.physical_volumes[pv_index].extent_list_head = extent,
                                 !.physical_volumes[pv_index].extent_list_tail = extent],
               hp |-> [hp EXCEPT ![extent].phys_prev = NULL,
                                 ![extent].phys_next = NULL]]
         ELSE LET current == PhysInsertionPoint(hp, pv_info.extent_list_head,
                                                hp[extent].physical_block_start) IN
              IF current # NULL
              THEN \* insert before current
                   LET prev == hp[current].phys_prev
                       hp1  == [hp EXCEPT ![extent].phys_prev = prev,
                                          ![extent].phys_next = current]
                       hp2  == IF prev # NULL
                               THEN [hp1 EXCEPT ![prev].phys_next = extent]
                               ELSE hp1
                       vs2  == IF prev # NULL
                               THEN vs
                               ELSE [vs EXCEPT !.physical_volumes[pv_index].extent_list_head = extent]
                   IN  [vs |-> vs2, hp |-> [hp2 EXCEPT ![current].phys_prev = extent]]
              ELSE \* insert at end
                   LET tail == pv_info.extent_list_tail
                   IN  [vs |-> [vs EXCEPT !.physical_volumes[pv_index].extent_list_tail = extent],
                        hp |-> [hp EXCEPT ![extent].phys_prev = tail,
                                          ![extent].phys_next = NULL,
                                          ![tail].phys_next = extent]]

\* Variant of the logical insertion that links the extent into a non-empty
\* list only when a later extent exists, and never moves the head.
insert_extent_logical_keeps_head(vs, hp, lv_index, extent) ==
    IF extent = NULL \/ lv_index >= vs.num_logical_volumes
    THEN [vs |-> vs, hp |-> hp]
    ELSE LET lv_info == vs.logical_volumes[lv_index] IN
         IF lv_info.extent_list_head = NULL
         THEN [vs |-> [vs EXCEPT !.logical_volumes[lv_index].extent_list_head = extent,
                                 !.logical_volumes[lv_index].extent_list_tail = extent],
               hp |-> [hp EXCEPT ![extent].logical_prev = NULL,
                                 ![extent].logical_next = NULL]]
         ELSE [vs |-> vs,
               hp |-> [hp EXCEPT ![extent].logical_prev = lv_info.extent_list_tail,
                                 ![extent].logical_next = NULL]]

\* The search loop of fvdecheck_insert_extent_logical.
RECURSIVE LogicalInsertionPoint(_, _, _)
LogicalInsertionPoint(hp, current, key) ==
    IF current = NULL THEN NULL
    ELSE IF key < hp[current].logical_block_start THEN current
    ELSE LogicalInsertionPoint(hp, hp[current].logical_next, key)

fvdecheck_insert_extent_logical(vs, hp, lv_index, extent) ==
    IF extent = NULL \/ lv_index >= vs.num_logical_volumes
    THEN [vs |-> vs, hp |-> hp]
    ELSE LET lv_info == vs.logical_volumes[lv_index] IN
         IF lv_info.extent_list_head = NULL
         THEN [vs |-> [vs EXCEPT !.logical_volumes[lv_index].extent_list_head = extent,
                                 !.logical_volumes[lv_index].extent_list_tail = extent],
               hp |-> [hp EXCEPT ![extent].logical_prev = NULL,
                                 ![extent].logical_next = NULL]]
         ELSE LET current == LogicalInsertionPoint(hp, lv_info.extent_list_head,
                                                   hp[extent].logical_block_start) IN
              IF current # NULL
              THEN LET prev == hp[current].logical_prev
                       hp1  == [hp EXCEPT ![extent].logical_prev = prev,
                                          ![extent].logical_next = current]
                       hp2  == IF prev # NULL
                               THEN [hp1 EXCEPT ![prev].logical_next = extent]
                               ELSE hp1
                       vs2  == IF prev # NULL
                               THEN vs
                               ELSE [vs EXCEPT !.logical_volumes[lv_index].extent_list_head = extent]
                   IN  [vs |-> vs2, hp |-> [hp2 EXCEPT ![current].logical_prev = extent]]
              ELSE LET tail == lv_info.extent_list_tail
                   IN  [vs |-> [vs EXCEPT !.logical_volumes[lv_index].extent_list_tail = extent],
                        hp |-> [hp EXCEPT ![extent].logical_prev = tail,
                                          ![extent].logical_next = NULL,
                                          ![tail].logical_next = extent]]

\* Variant of mark_allocated without the logical volume bounds check.
mark_allocated_unchecked_lv(vs, hp, pv_index, phys_block_start, block_count, lv_index, logical_block_start) ==
    IF pv_index >= vs.num_physical_volumes
    THEN [vs |-> vs, hp |-> hp, rc |-> -1]
    ELSE LET extent == Len(hp) + 1
             hp1 == Append(hp, [fvdecheck_extent_initialize EXCEPT
                                  !.physical_volume_index = pv_index,
                                  !.physical_block_start = phys_block_start,
                                  !.physical_block_count = block_count,
                                  !.logical_volume_index = lv_index,
                                  !.logical_block_start = logical_block_start,
                                  !.state = FVDECHECK_EXTENT_STATE_ALLOCATED])
             r1 == fvdecheck_insert_extent_physical(vs, hp1, pv_index, extent)
         IN  [vs |-> [r1.vs EXCEPT !.total_extents = @ + 1], hp |-> r1.hp, rc |-> 1]

\* --------------------------------------------------------- mark operations
\* Each returns the volume state, the heap and the return code.
fvdecheck_volume_state_mark_reserved(vs, hp, pv_index, block_start, block_count) ==
    IF pv_index >= vs.num_physical_volumes
    THEN [vs |-> vs, hp |-> hp, rc |-> -1]
    ELSE LET extent == Len(hp) + 1
             hp1 == Append(hp, [fvdecheck_extent_initialize EXCEPT
                                  !.physical_volume_index = pv_index,
                                  !.physical_block_start = block_start,
                                  !.physical_block_count = block_count,
                                  !.state = FVDECHECK_EXTENT_STATE_RESERVED])
             r == fvdecheck_insert_extent_physical(vs, hp1, pv_index, extent)
         IN  [vs |-> [r.vs EXCEPT !.total_extents = @ + 1], hp |-> r.hp, rc |-> 1]

fvdecheck_volume_state_mark_free(vs, hp, pv_index, block_start, block_count) ==
    IF pv_index >= vs.num_physical_volumes
    THEN [vs |-> vs, hp |-> hp, rc |-> -1]
    ELSE LET extent == Len(hp) + 1
             hp1 == Append(hp, [fvdecheck_extent_initialize EXCEPT
                                  !.physical_volume_index = pv_index,
                                  !.physical_block_start = block_start,
                                  !.physical_block_count = block_count,
                                  !.state = FVDECHECK_EXTENT_STATE_FREE])
             r == fvdecheck_insert_extent_physical(vs, hp1, pv_index, extent)
         IN  [vs |-> [r.vs EXCEPT !.total_extents = @ + 1], hp |-> r.hp, rc |-> 1]

fvdecheck_volume_state_mark_allocated(vs, hp, pv_index, phys_block_start, block_count, lv_index, logical_block_start) ==
    IF pv_index >= vs.num_physical_volumes
    THEN [vs |-> vs, hp |-> hp, rc |-> -1]
    ELSE IF lv_index >= vs.num_logical_volumes
    THEN [vs |-> vs, hp |-> hp, rc |-> -1]
    ELSE LET extent == Len(hp) + 1
             hp1 == Append(hp, [fvdecheck_extent_initialize EXCEPT
                                  !.physical_volume_index = pv_index,
                                  !.physical_block_start = phys_block_start,
                                  !.physical_block_count = block_count,
                                  !.logical_volume_index = lv_index,
                                  !.logical_block_start = logical_block_start,
                                  !.state = FVDECHECK_EXTENT_STATE_ALLOCATED])
             r1 == fvdecheck_insert_extent_physical(vs, hp1, pv_index, extent)
             r2 == fvdecheck_insert_extent_logical(r1.vs, r1.hp, lv_index, extent)
         IN  [vs |-> [r2.vs EXCEPT !.total_extents = @ + 1], hp |-> r2.hp, rc |-> 1]

\* ------------------------------------------------------------------ queries
\* Each returns the extent found (its heap index) or NULL.
RECURSIVE FindPhysicalFrom(_, _, _)
FindPhysicalFrom(hp, current, block_number) ==
    IF current = NULL THEN NULL
    ELSE IF /\ block_number >= hp[current].physical_block_start
            /\ block_number < hp[current].physical_block_start + hp[current].physical_block_count
    THEN current
    ELSE IF hp[current].physical_block_start > block_number THEN NULL
    ELSE FindPhysicalFrom(hp, hp[current].phys_next, block_number)

fvdecheck_volume_state_find_physical_extent(vs, hp, pv_index, block_number) ==
    IF pv_index >= vs.num_physical_volumes THEN NULL
    ELSE FindPhysicalFrom(hp, vs.physical_volumes[pv_index].extent_list_head, block_number)

RECURSIVE FindLogicalFrom(_, _, _)
FindLogicalFrom(hp, current, block_number) ==
    IF current = NULL THEN NULL
    ELSE IF /\ block_number >= hp[current].logical_block_start
            /\ block_number < hp[current].logical_block_start + hp[current].physical_block_count
    THEN current
    ELSE IF hp[current].logical_block_start > block_number THEN NULL
    ELSE FindLogicalFrom(hp, hp[current].logical_next, block_number)

fvdecheck_volume_state_find_logical_extent(vs, hp, lv_index, block_number) ==
    IF lv_index >= vs.num_logical_volumes THEN NULL
    ELSE FindLogicalFrom(hp, vs.logical_volumes[lv_index].extent_list_head, block_number)

RECURSIVE CheckOverlapFrom(_, _, _, _)
CheckOverlapFrom(hp, current, block_start, block_end) ==
    IF current = NULL THEN NULL
    ELSE LET current_end == hp[current].physical_block_start + hp[current].physical_block_count IN
         IF block_start < current_end /\ hp[current].physical_block_start < block_end
         THEN current
         ELSE IF hp[current].physical_block_start >= block_end THEN NULL
         ELSE CheckOverlapFrom(hp, hp[current].phys_next, block_start, block_end)

fvdecheck_volume_state_check_overlap(vs, hp, pv_index, block_start, block_count) ==
    IF pv_index >= vs.num_physical_volumes THEN NULL
    ELSE CheckOverlapFrom(hp, vs.physical_volumes[pv_index].extent_list_head,
                          block_start, block_start + block_count)

\* --------------------------------------------------------------- statistics
ZeroPhysicalTotals == [reserved_blocks |-> 0, allocated_blocks |-> 0, free_blocks |-> 0]

\* The inner loop over a physical volume's list: adds each extent's
\* physical_block_count to the counter of its state.
RECURSIVE AccumulatePhysical(_, _, _)
AccumulatePhysical(hp, current, totals) ==
    IF current = NULL THEN totals
    ELSE LET e == hp[current]
             t == IF e.state = FVDECHECK_EXTENT_STATE_RESERVED
                  THEN [totals EXCEPT !.reserved_blocks = @ + e.physical_block_count]
                  ELSE IF e.state = FVDECHECK_EXTENT_STATE_ALLOCATED
                  THEN [totals EXCEPT !.allocated_blocks = @ + e.physical_block_count]
                  ELSE IF e.state = FVDECHECK_EXTENT_STATE_FREE
                  THEN [totals EXCEPT !.free_blocks = @ + e.physical_block_count]
                  ELSE totals
         IN  AccumulatePhysical(hp, e.phys_next, t)

\* The inner loop over a logical volume's list.
RECURSIVE AccumulateLogical(_, _, _)
AccumulateLogical(hp, current, mapped) ==
    IF current = NULL THEN mapped
    ELSE AccumulateLogical(hp, hp[current].logical_next,
                           mapped + hp[current].physical_block_count)

\* Variant that adds to the stored statistics instead of resetting them.
calculate_statistics_no_reset(vs, hp) ==
    [vs EXCEPT
       !.physical_volumes =
          [pv_index \in DOMAIN vs.physical_volumes |->
             LET pv_info == vs.physical_volumes[pv_index]
                 t == AccumulatePhysical(hp, pv_info.extent_list_head,
                                         [reserved_blocks |-> pv_info.reserved_blocks,
                                          allocated_blocks |-> pv_info.allocated_blocks,
                                          free_blocks |-> pv_info.free_blocks])
             IN  [pv_info EXCEPT !.reserved_blocks = t.reserved_blocks,
                                 !.allocated_blocks = t.allocated_blocks,
                                 !.free_blocks = t.free_blocks]],
       !.logical_volumes =
          [lv_index \in DOMAIN vs.logical_volumes |->
             LET lv_info == vs.logical_volumes[lv_index]
                 mapped == AccumulateLogical(hp, lv_info.extent_list_head, lv_info.mapped_blocks)
             IN  [lv_info EXCEPT
                    !.mapped_blocks = mapped,
                    !.unmapped_blocks = IF lv_info.size_in_blocks > mapped
                                        THEN lv_info.size_in_blocks - mapped
                                        ELSE 0]]]

\* Returns the volume state with the statistics of every volume recomputed.
fvdecheck_volume_state_calculate_statistics(vs, hp) ==
    [vs EXCEPT
       !.physical_volumes =
          [pv_index \in DOMAIN vs.physical_volumes |->
             LET pv_info == vs.physical_volumes[pv_index]
                 t == AccumulatePhysical(hp, pv_info.extent_list_head, ZeroPhysicalTotals)
             IN  [pv_info EXCEPT !.reserved_blocks = t.reserved_blocks,
                                 !.allocated_blocks = t.allocated_blocks,
                                 !.free_blocks = t.free_blocks]],
       !.logical_volumes =
          [lv_index \in DOMAIN vs.logical_volumes |->
             LET lv_info == vs.logical_volumes[lv_index]
                 mapped == AccumulateLogical(hp, lv_info.extent_list_head, 0)
             IN  [lv_info EXCEPT
                    !.mapped_blocks = mapped,
                    !.unmapped_blocks = IF lv_info.size_in_blocks > mapped
                                        THEN lv_info.size_in_blocks - mapped
                                        ELSE 0]]]

\* ------------------------------------------------- the store specification
\* Any caller of the extent store: volumes are added, extents are marked and
\* the statistics are recomputed in any order.
NoWalk == [pc |-> "api", index |-> 0, lv |-> 0, seg |-> 0, npv |-> 0, nlv |-> 0,
           volume_header |-> NoVolumeHeader, metadata |-> NoMetadata, options |-> NoOptions]

NoResult == [rc |-> 0, index |-> -1]

Init ==
    /\ volume_state = fvdecheck_volume_state_initialize
    /\ heap = <<>>
    /\ result = NoResult
    /\ walk = NoWalk
    /\ DumpIdle
    /\ KeysIdle

AddPhysicalVolume ==
    /\ walk.pc = "api"
    /\ volume_state.num_physical_volumes \in PVSlots
    /\ \E size_in_blocks \in PVSizes :
         LET r == fvdecheck_volume_state_add_physical_volume(volume_state, size_in_blocks)
         IN  /\ volume_state' = r.vs
             /\ result' = [rc |-> r.rc, index |-> r.index]
    /\ UNCHANGED <<heap, walk>>
    /\ UNCHANGED <<dump_vars, key_vars>>

AddLogicalVolume ==
    /\ walk.pc = "api"
    /\ volume_state.num_logical_volumes \in LVSlots
    /\ \E size_in_blocks \in LVSizes :
         LET r == fvdecheck_volume_state_add_logical_volume(volume_state, size_in_blocks)
         IN  /\ volume_state' = r.vs
             /\ result' = [rc |-> r.rc, index |-> r.index]
    /\ UNCHANGED <<heap, walk>>
    /\ UNCHANGED <<dump_vars, key_vars>>

MarkReserved ==
    /\ walk.pc = "api"
    /\ Len(heap) < MaxExtents
    /\ \E pv_index \in PVIndexes, block_start \in Starts, block_count \in Counts :
         LET r == fvdecheck_volume_state_mark_reserved(volume_state, heap, pv_index,
                                                       block_start, block_count)
         IN  /\ volume_state' = r.vs
             /\ heap' = r.hp
             /\ result' = [rc |-> r.rc, index |-> -1]
    /\ UNCHANGED walk
    /\ UNCHANGED <<dump_vars, key_vars>>

MarkFree ==
    /\ walk.pc = "api"
    /\ Len(heap) < MaxExtents
    /\ \E pv_index \in PVIndexes, block_start \in FreeStarts, block_count \in FreeCounts :
         LET r == fvdecheck_volume_state_mark_free(volume_state, heap, pv_index,
                                                   block_start, block_count)
         IN  /\ volume_state' = r.vs
             /\ heap' = r.hp
             /\ result' = [rc |-> r.rc, index |-> -1]
    /\ UNCHANGED walk
    /\ UNCHANGED <<dump_vars, key_vars>>

MarkAllocated ==
    /\ walk.pc = "api"
    /\ Len(heap) < MaxExtents
    /\ \E pv_index \in PVIndexes, phys_block_start \in Starts, block_count \in AllocCounts,
          lv_index \in LVIndexes, logical_block_start \in LStarts :
         LET r == fvdecheck_volume_state_mark_allocated(volume_state, heap, pv_index,
                       phys_block_start, block_count, lv_index, logical_block_start)
         IN  /\ volume_state' = r.vs
             /\ heap' = r.hp
             /\ result' = [rc |-> r.rc, index |-> -1]
    /\ UNCHANGED walk
    /\ UNCHANGED <<dump_vars, key_vars>>

CalculateStatistics ==
    /\ walk.pc = "api"
    /\ volume_state' = fvdecheck_volume_state_calculate_statistics(volume_state, heap)
    /\ result' = [rc |-> 1, index |-> -1]
    /\ UNCHANGED <<heap, walk>>
    /\ UNCHANGED <<dump_vars, key_vars>>

Next ==
    \/ AddPhysicalVolume
    \/ AddLogicalVolume
    \/ MarkReserved
    \/ MarkFree
    \/ MarkAllocated
    \/ CalculateStatistics

Spec == Init /\ [][Next]_vars

\* --------------------------------------------- the capacity specification
\* A caller that keeps adding volumes up to and beyond the capacity of the
\* arrays; one reserved extent may be marked on the way.
InitCap ==
    /\ volume_state = fvdecheck_volume_state_initialize
    /\ heap = <<>>
    /\ result = NoResult
    /\ walk = [NoWalk EXCEPT !.pc = "cap"]
    /\ DumpIdle
    /\ KeysIdle

CapAddPhysicalVolume ==
    /\ walk.pc = "cap"
    /\ \E size_in_blocks \in PVSizes :
         LET r == fvdecheck_volume_state_add_physical_volume(volume_state, size_in_blocks)
         IN  /\ volume_state' = r.vs
             /\ result' = [rc |-> r.rc, index |-> r.index]
    /\ UNCHANGED <<heap, walk>>
    /\ UNCHANGED <<dump_vars, key_vars>>

CapAddLogicalVolume ==
    /\ walk.pc = "cap"
    /\ \E size_in_blocks \in LVSizes :
         LET r == fvdecheck_volume_state_add_logical_volume(volume_state, size_in_blocks)
         IN  /\ volume_state' = r.vs
             /\ result' = [rc |-> r.rc, index |-> r.index]
    /\ UNCHANGED <<heap, walk>>
    /\ UNCHANGED <<dump_vars, key_vars>>

CapMarkReserved ==
    /\ walk.pc = "cap"
    /\ Len(heap) < 1
    /\ volume_state.num_physical_volumes > 0
    /\ LET r == fvdecheck_volume_state_mark_reserved(volume_state, heap, 0, 0, 1)
       IN  /\ volume_state' = r.vs
           /\ heap' = r.hp
           /\ result' = [rc |-> r.rc, index |-> -1]
    /\ UNCHANGED walk
    /\ UNCHANGED <<dump_vars, key_vars>>

NextCap ==
    \/ CapAddPhysicalVolume
    \/ CapAddLogicalVolume
    \/ CapMarkReserved

SpecCap == InitCap /\ [][NextCap]_vars

\* ------------------------------------------------ the walker specification
\* check_handle_open followed by check_handle_process_volume on a volume
\* whose header, metadata and segment descriptors are inputs.
InitWalker ==
    /\ volume_state = fvdecheck_volume_state_initialize
    /\ heap = <<>>
    /\ result = NoResult
    /\ walk \in { [pc |-> "open_pv", index |-> 0, lv |-> 0, seg |-> 0,
                   npv |-> n, nlv |-> m, volume_header |-> h, metadata |-> md,
                   options |-> NoOptions] :
                  n \in WalkPVCounts, m \in WalkLVCounts,
                  h \in VolumeHeaders, md \in Metadatas }
    /\ DumpIdle
    /\ KeysIdle

\* Where control is after check_handle_open returned 1: the fvdecheck main
\* program goes on to its consumers, any other caller is taken to call
\* check_handle_process_volume next.
AfterOpen == IF walk.options.main THEN "lookup" ELSE "metadata"

\* check_handle_open, one iteration of the physical volume loop
WalkerOpenPhysicalVolume ==
    /\ walk.pc = "open_pv"
    /\ \E volume_size \in PVSizeBytes :
         LET r1 == fvdecheck_volume_state_add_physical_volume(
                       volume_state, volume_size \div volume_state.block_size)
             r2 == fvdecheck_volume_state_mark_reserved(r1.vs, heap, r1.index, 0, 1)
             last == walk.index + 1 >= walk.npv
         IN  IF r1.rc # 1
             THEN /\ volume_state' = r1.vs
                  /\ heap' = heap
                  /\ result' = [rc |-> -1, index |-> -1]
                  /\ walk' = [walk EXCEPT !.pc = "error"]
             ELSE /\ volume_state' = r2.vs
                  /\ heap' = r2.hp
                  /\ result' = [rc |-> r2.rc, index |-> r1.index]
                  /\ walk' = IF r2.rc # 1 THEN [walk EXCEPT !.pc = "error"]
                             ELSE IF ~last THEN [walk EXCEPT !.index = @ + 1]
                             ELSE [walk EXCEPT !.index = 0,
                                               !.pc = IF walk.nlv > 0 THEN "open_lv" ELSE AfterOpen]
    /\ UNCHANGED <<dump_vars, key_vars>>

\* check_handle_open, one iteration of the logical volume loop
WalkerOpenLogicalVolume ==
    /\ walk.pc = "open_lv"
    /\ \E volume_size \in LVSizeBytes :
         LET r == fvdecheck_volume_state_add_logical_volume(
                      volume_state, volume_size \div volume_state.block_size)
             last == walk.index + 1 >= walk.nlv
         IN  /\ volume_state' = r.vs
             /\ result' = [rc |-> r.rc, index |-> r.index]
             /\ walk' = IF r.rc # 1 THEN [walk EXCEPT !.pc = "error"]
                        ELSE IF ~last THEN [walk EXCEPT !.index = @ + 1]
                        ELSE [walk EXCEPT !.index = 0, !.pc = AfterOpen]
    /\ UNCHANGED heap
    /\ UNCHANGED <<dump_vars, key_vars>>

\* check_handle_mark_metadata_reserved, one iteration of the loop over the
\* four metadata blocks; every block is marked on physical volume 0
WalkerMarkMetadata ==
    /\ walk.pc = "metadata"
    /\ LET metadata_size == walk.volume_header.metadata_size
           metadata_offset == walk.volume_header.metadata_offsets[walk.index + 1]
           metadata_start_block == metadata_offset \div volume_state.block_size
           metadata_block_count == metadata_size \div volume_state.block_size
           r == fvdecheck_volume_state_mark_reserved(volume_state, heap, 0,
                    metadata_start_block, metadata_block_count)
       IN  /\ volume_state' = r.vs
           /\ heap' = r.hp
           /\ result' = [rc |-> r.rc, index |-> -1]
           /\ walk' = IF r.rc # 1 THEN [walk EXCEPT !.pc = "error"]
                      ELSE IF walk.index + 1 < 4 THEN [walk EXCEPT !.index = @ + 1]
                      ELSE [walk EXCEPT !.index = 0, !.pc = "encrypted"]
    /\ UNCHANGED <<dump_vars, key_vars>>

\* check_handle_mark_metadata_reserved, the encrypted metadata regions, and
\* the return into check_handle_process_volume
WalkerMarkEncrypted ==
    /\ walk.pc = "encrypted"
    /\ LET md == walk.metadata
           mark1 == md.present /\ md.encrypted_metadata1_offset > 0 /\ md.encrypted_metadata_size > 0
           mark2 == md.present /\ md.encrypted_metadata2_offset > 0 /\ md.encrypted_metadata_size > 0
           r1 == IF mark1
                 THEN fvdecheck_volume_state_mark_reserved(volume_state, heap, 0,
                          md.encrypted_metadata1_offset \div volume_state.block_size,
                          md.encrypted_metadata_size \div volume_state.block_size)
                 ELSE [vs |-> volume_state, hp |-> heap, rc |-> 1]
           r2 == IF r1.rc = 1 /\ mark2
                 THEN fvdecheck_volume_state_mark_reserved(r1.vs, r1.hp, 0,
                          md.encrypted_metadata2_offset \div r1.vs.block_size,
                          md.encrypted_metadata_size \div r1.vs.block_size)
                 ELSE r1
       IN  /\ volume_state' = r2.vs
           /\ heap' = r2.hp
           /\ result' = [rc |-> r2.rc, index |-> -1]
           /\ walk' = IF r2.rc # 1 THEN [walk EXCEPT !.pc = "error"]
                      ELSE [walk EXCEPT !.lv = 0, !.seg = 0,
                                        !.pc = IF walk.nlv > 0 THEN "segments" ELSE "done"]
    /\ UNCHANGED <<dump_vars, key_vars>>

\* check_handle_process_volume, one iteration of the segment descriptor loop
\* of logical volume walk.lv
WalkerSegmentDescriptor ==
    /\ walk.pc = "segments"
    /\ walk.seg < MaxSegments
    /\ \E segment_descriptor \in SegmentDescriptors :
         IF ~segment_descriptor.present
         THEN /\ walk' = [walk EXCEPT !.seg = @ + 1]
              /\ UNCHANGED <<volume_state, heap, result>>
         ELSE LET r == fvdecheck_volume_state_mark_allocated(volume_state, heap,
                           segment_descriptor.physical_volume_index,
                           segment_descriptor.physical_block_number,
                           segment_descriptor.number_of_blocks,
                           walk.lv,
                           segment_descriptor.logical_block_number)
              IN  /\ volume_state' = r.vs
                  /\ heap' = r.hp
                  /\ result' = [rc |-> r.rc, index |-> -1]
                  /\ walk' = IF r.rc # 1 THEN [walk EXCEPT !.pc = "error"]
                             ELSE [walk EXCEPT !.seg = @ + 1]
    /\ UNCHANGED <<dump_vars, key_vars>>

\* check_handle_process_volume, the segment descriptors of logical volume
\* walk.lv are exhausted: the next logical volume, or return( 1 )
WalkerNextLogicalVolume ==
    /\ walk.pc = "segments"
    /\ walk' = IF walk.lv + 1 < walk.nlv
               THEN [walk EXCEPT !.lv = @ + 1]
               ELSE [walk EXCEPT !.pc = "done"]
    /\ UNCHANGED <<volume_state, heap, result>>
    /\ UNCHANGED <<dump_vars, key_vars>>

\* check_handle_signal_abort, called by the signal handler of fvdecheck
WalkerSignalAbort ==
    /\ walk.pc \notin {"api", "done", "error"}
    /\ check_handle.abort = 0
    /\ check_handle' = [check_handle EXCEPT !.abort = 1]
    /\ UNCHANGED <<check_vars, dump_vars, dmsetup, keyring>>

NextWalker ==
    \/ WalkerSignalAbort
    \/ WalkerOpenPhysicalVolume
    \/ WalkerOpenLogicalVolume
    \/ WalkerMarkMetadata
    \/ WalkerMarkEncrypted
    \/ WalkerSegmentDescriptor
    \/ WalkerNextLogicalVolume

SpecWalker == InitWalker /\ [][NextWalker]_vars

\* ---------------------------------------- the fvdecheck main specification
\* main: check_handle_open, then the consumers the options select.
fvdecheck_linux_sector_to_fvde_block(sector, block_size) ==
    IF block_size = 0 THEN 0 ELSE (sector * 512) \div block_size

fvdecheck_fvde_block_to_linux_sector(block, block_size) == (block * block_size) \div 512

InitMain ==
    /\ volume_state = fvdecheck_volume_state_initialize
    /\ heap = <<>>
    /\ result = NoResult
    /\ walk \in { [pc |-> "open_pv", index |-> 0, lv |-> 0, seg |-> 0,
                   npv |-> n, nlv |-> m, volume_header |-> h, metadata |-> md,
                   options |-> o] :
                  n \in WalkPVCounts, m \in WalkLVCounts,
                  h \in VolumeHeaders, md \in Metadatas,
                  o \in MainOptions }
    /\ walk.nlv = 0 => walk.options.descriptors = 0
    /\ DumpIdle
    /\ KeysIdle

\* check_handle_lookup_block, called when -s was given; result.index carries
\* the extent state it prints (UNKNOWN when no tracked extent holds the block)
MainLookupBlock ==
    /\ walk.pc = "lookup"
    /\ IF walk.options.lookup_linux_sector_set
       THEN LET block_number == fvdecheck_linux_sector_to_fvde_block(
                                    walk.options.lookup_linux_sector, volume_state.block_size)
                extent == fvdecheck_volume_state_find_physical_extent(
                              volume_state, heap, 0, block_number)
            IN  result' = [rc |-> 1,
                           index |-> IF extent # NULL THEN heap[extent].state
                                     ELSE FVDECHECK_EXTENT_STATE_UNKNOWN]
       ELSE result' = result
    /\ walk' = [walk EXCEPT !.pc = "print"]
    /\ UNCHANGED <<volume_state, heap>>
    /\ UNCHANGED <<dump_vars, key_vars>>

\* check_handle_print_json
MainPrintJson ==
    /\ walk.pc = "print"
    /\ walk.options.json_mode
    /\ volume_state' = fvdecheck_volume_state_calculate_statistics(volume_state, heap)
    /\ result' = [rc |-> 1, index |-> -1]
    /\ walk' = [walk EXCEPT !.pc = "closed"]
    /\ UNCHANGED heap
    /\ UNCHANGED <<dump_vars, key_vars>>

\* check_handle_print_allocation_summary
MainPrintAllocationSummary ==
    /\ walk.pc = "print"
    /\ ~walk.options.json_mode
    /\ volume_state' = fvdecheck_volume_state_calculate_statistics(volume_state, heap)
    /\ result' = [rc |-> 1, index |-> -1]
    /\ walk' = [walk EXCEPT !.pc = IF walk.options.dump_allocation_map THEN "map" ELSE "closed"]
    /\ UNCHANGED heap
    /\ UNCHANGED <<dump_vars, key_vars>>

\* check_handle_print_allocation_map: walks every physical list, changes nothing
MainPrintAllocationMap ==
    /\ walk.pc = "map"
    /\ result' = [rc |-> 1, index |-> -1]
    /\ walk' = [walk EXCEPT !.pc = "closed"]
    /\ UNCHANGED <<volume_state, heap>>
    /\ UNCHANGED <<dump_vars, key_vars>>

NextMain ==
    \/ WalkerOpenPhysicalVolume
    \/ WalkerOpenLogicalVolume
    \/ MainLookupBlock
    \/ MainPrintJson
    \/ MainPrintAllocationSummary
    \/ MainPrintAllocationMap

SpecMain == InitMain /\ [][NextMain]_vars

\* =========================================================================
\* fvdedump: the dump handle's operations
\* =========================================================================

\* The descriptors open() hands out.
SourceDescriptor == 3
DestinationDescriptor == 4

\* write( fd, buffer, size ) at `offset` of a file; source_offset names where
\* the buffer was read from, or is -1 and `data` is the buffer.
FileWrite(file, offset, size, source_offset, data) ==
    [file EXCEPT !.length = IF offset + size > @ THEN offset + size ELSE @,
                 !.writes = Append(@, [offset |-> offset, size |-> size,
                                       source_offset |-> source_offset, data |-> data])]

\* An ftruncate that leaves the file as it is.
file_truncate_nothing(file, size) == file

\* ftruncate( fd, size ) on a file that holds nothing beyond `size`
FileTruncate(file, size) == [file EXCEPT !.length = size]

\* open( filename, O_WRONLY | O_CREAT | O_TRUNC, 0644 )
FileOpenTruncate(file) == [exists |-> TRUE, length |-> 0, writes |-> <<>>]

\* An open that never looks whether the file exists.
open_destination_unconditionally(handle, file) ==
    [rc |-> 1,
     dump_handle |-> [handle EXCEPT !.destination_fd = 4],
     destination |-> [exists |-> TRUE, length |-> 0, writes |-> <<>>]]

\* dump_handle_open_destination: stat() finds the file and force is 0: -1
\* with nothing opened; otherwise open it, creating and truncating.
dump_handle_open_destination(handle, file) ==
    IF file.exists /\ handle.force = 0
    THEN [rc |-> -1, dump_handle |-> handle, destination |-> file]
    ELSE [rc |-> 1,
          dump_handle |-> [handle EXCEPT !.destination_fd = DestinationDescriptor],
          destination |-> FileOpenTruncate(file)]

\* dump_handle_read_volume_header on the 512 bytes read at offset 0
dump_handle_read_volume_header(handle, volume_header_data) ==
    IF handle.source_fd = -1
    THEN [rc |-> -1, dump_handle |-> handle]
    ELSE IF volume_header_data[88 + 1] # 67 \/ volume_header_data[89 + 1] # 83
    THEN [rc |-> -1, dump_handle |-> handle]
    ELSE LET block_size ==
                 Number(byte_stream_copy_to_uint32_little_endian(volume_header_data, 96))
         IN  [rc |-> 1,
              dump_handle |->
                  [handle EXCEPT
                      !.physical_volume_size =
                          Number(byte_stream_copy_to_uint64_little_endian(volume_header_data, 72)),
                      !.block_size = block_size,
                      !.metadata_size =
                          Number(byte_stream_copy_to_uint32_little_endian(volume_header_data, 100)),
                      !.metadata_offsets =
                          [metadata_block_index \in 1 .. 4 |->
                              Number(byte_stream_copy_to_uint64_little_endian(
                                         volume_header_data,
                                         104 + ((metadata_block_index - 1) * 8)))
                                * block_size]]]

\* value & 0x0000ffffffffffff
MaskVolumeIndex(value) == SubSeq(value, 1, 6) \o <<0, 0>>

\* The loop of dump_handle_read_metadata from metadata_index (0-based) on;
\* found holds highest_transaction_id and the three values read so far.
RECURSIVE ReadMetadataLoop(_, _, _, _, _)
ReadMetadataLoop(handle, image, metadata_index, found, beyond) ==
    IF metadata_index = 4 THEN found
    ELSE LET metadata_data ==
                 SourceMetadataAt(image, handle.metadata_offsets[metadata_index + 1])
             transaction_identifier ==
                 Number(ReadBeyond(metadata_data, 16, 8, beyond))
             volume_groups_descriptor_offset ==
                 Uint32(ReadBeyond(metadata_data, 64 + 156, 4, beyond))
             actual_offset == volume_groups_descriptor_offset - 64
             header_accesses ==
                 found.accesses \cup {[index |-> 16, size |-> 8], [index |-> 64 + 156, size |-> 4]}
         IN  IF transaction_identifier > found.highest_transaction_id
             THEN ReadMetadataLoop(handle, image, metadata_index + 1,
                      IF Uint32Greater(volume_groups_descriptor_offset, 64)
                      THEN [highest_transaction_id |-> transaction_identifier,
                            encrypted_metadata_size |->
                                ReadBeyond(metadata_data, 64 + actual_offset + 8, 8, beyond),
                            encrypted_metadata1_offset |->
                                ReadBeyond(metadata_data, 64 + actual_offset + 32, 8, beyond),
                            encrypted_metadata2_offset |->
                                ReadBeyond(metadata_data, 64 + actual_offset + 40, 8, beyond),
                            accesses |-> header_accesses \cup
                                {[index |-> 64 + actual_offset + 8, size |-> 8],
                                 [index |-> 64 + actual_offset + 32, size |-> 8],
                                 [index |-> 64 + actual_offset + 40, size |-> 8]}]
                      ELSE [found EXCEPT !.highest_transaction_id = transaction_identifier,
                                         !.accesses = header_accesses],
                      beyond)
             ELSE ReadMetadataLoop(handle, image, metadata_index + 1,
                                   [found EXCEPT !.accesses = header_accesses], beyond)

Zero64 == <<0, 0, 0, 0, 0, 0, 0, 0>>

\* dump_handle_read_metadata; accesses holds the index and the size of every
\* access it made to its buffer of metadata_size bytes.
dump_handle_read_metadata(handle, image, beyond) ==
    IF handle.metadata_size = 0
    THEN [rc |-> -1, dump_handle |-> handle, accesses |-> {}]
    ELSE LET found == ReadMetadataLoop(handle, image, 0,
                          [highest_transaction_id |-> 0,
                           encrypted_metadata_size |-> Zero64,
                           encrypted_metadata1_offset |-> Zero64,
                           encrypted_metadata2_offset |-> Zero64,
                           accesses |-> {}], beyond)
         IN  [rc |-> 1,
              accesses |-> found.accesses,
              dump_handle |->
                  [handle EXCEPT
                      !.encrypted_metadata1_offset =
                          Number(MaskVolumeIndex(found.encrypted_metadata1_offset))
                            * handle.block_size,
                      !.encrypted_metadata2_offset =
                          Number(MaskVolumeIndex(found.encrypted_metadata2_offset))
                            * handle.block_size,
                      !.encrypted_metadata_size =
                          Number(found.encrypted_metadata_size) * handle.block_size]]

\* The accesses dump_handle_write_corrected_metadata makes to its buffer of
\* metadata_size bytes: the descriptor offset, and when the offset passes the
\* two tests the two block numbers, the 8184 bytes of the checksum and the
\* checksum.
CorrectedMetadataAccesses(handle, metadata_data, beyond) ==
    LET volume_groups_descriptor_offset ==
            Uint32(ReadBeyond(metadata_data, 64 + 156, 4, beyond))
        actual_offset == volume_groups_descriptor_offset - 64
    IN  IF /\ Uint32Greater(volume_groups_descriptor_offset, 64)
           /\ Uint32LessEqual(64 + actual_offset + 48, handle.metadata_size)
        THEN {[index |-> 64 + 156, size |-> 4],
              [index |-> 64 + actual_offset + 32, size |-> 8],
              [index |-> 64 + actual_offset + 40, size |-> 8],
              [index |-> 8, size |-> 8184],
              [index |-> 0, size |-> 4]}
        ELSE {[index |-> 64 + 156, size |-> 4]}

\* The buffer dump_handle_write_corrected_metadata writes: the block read
\* from the source, with both block numbers and the checksum replaced when
\* volume_groups_descriptor_offset passes the two tests.
CorrectedMetadata(handle, metadata_data, compact_encrypted_metadata1_offset, compact_encrypted_metadata2_offset, beyond) ==
    LET volume_groups_descriptor_offset ==
            Uint32(ReadBeyond(metadata_data, 64 + 156, 4, beyond))
        actual_offset == volume_groups_descriptor_offset - 64
        encrypted_metadata1_block_number ==
            compact_encrypted_metadata1_offset \div handle.block_size
        encrypted_metadata2_block_number ==
            compact_encrypted_metadata2_offset \div handle.block_size
        corrected1 == StoreBeyond(metadata_data, 64 + actual_offset + 32,
                                  LittleEndian(encrypted_metadata1_block_number, 8))
        corrected2 == StoreBeyond(corrected1, 64 + actual_offset + 40,
                                  LittleEndian(encrypted_metadata2_block_number, 8))
        initial_value == <<255, 255, 255, 255>>
        checksummed ==
            IF handle.metadata_size >= 8 + 8184 THEN corrected2
            ELSE [k \in 1 .. (8 + 8184) |-> IF k <= Len(corrected2) THEN corrected2[k]
                                           ELSE BeyondByte(k - 1, beyond)]
        calculated_checksum ==
            dump_handle_calculate_weak_crc32(checksummed, 8, 8184, initial_value)
    IN  IF /\ Uint32Greater(volume_groups_descriptor_offset, 64)
           /\ Uint32LessEqual(64 + actual_offset + 48, handle.metadata_size)
        THEN byte_stream_copy_from_uint32_little_endian(corrected2, 0, calculated_checksum)
        ELSE metadata_data

dump_handle_write_corrected_metadata(handle, image, file, source_offset, destination_offset, compact_encrypted_metadata1_offset, compact_encrypted_metadata2_offset, beyond) ==
    LET metadata_data ==
            CorrectedMetadata(handle, SourceMetadataAt(image, source_offset),
                              compact_encrypted_metadata1_offset,
                              compact_encrypted_metadata2_offset, beyond)
    IN  [rc |-> 1,
         accesses |-> CorrectedMetadataAccesses(handle, SourceMetadataAt(image, source_offset), beyond),
         dump_handle |-> [handle EXCEPT !.bytes_copied = @ + handle.metadata_size],
         destination |-> FileWrite(file, destination_offset, handle.metadata_size,
                                   -1, metadata_data)]

\* The loop of dump_handle_write_corrected_volume_header over the four slots.
RECURSIVE CorrectedSlots(_, _, _, _)
CorrectedSlots(handle, volume_header_data, metadata_index, compact_block) ==
    IF metadata_index = 4 THEN volume_header_data
    ELSE CorrectedSlots(
             handle,
             byte_stream_copy_from_uint64_little_endian(
                 volume_header_data, 104 + (metadata_index * 8),
                 LittleEndian(compact_block, 8)),
             metadata_index + 1,
             compact_block
               + ((handle.metadata_size + handle.block_size - 1) \div handle.block_size))

\* A header whose checksum starts from 0xffffffff whatever bytes [4..8) hold.
corrected_volume_header_fixed_initial_value(handle, volume_header_data) ==
    LET slots == CorrectedSlots(handle, volume_header_data, 0, 1)
    IN  byte_stream_copy_from_uint32_little_endian(
            slots, 0, dump_handle_calculate_weak_crc32(slots, 8, 504, <<255, 255, 255, 255>>))

\* The buffer dump_handle_write_corrected_volume_header writes.
CorrectedVolumeHeader(handle, volume_header_data) ==
    LET slots == CorrectedSlots(handle, volume_header_data, 0, 1)
        initial_value == byte_stream_copy_to_uint32_little_endian(slots, 4)
        calculated_checksum == dump_handle_calculate_weak_crc32(slots, 8, 504, initial_value)
    IN  byte_stream_copy_from_uint32_little_endian(slots, 0, calculated_checksum)

dump_handle_write_corrected_volume_header(handle, image, file) ==
    [rc |-> 1,
     dump_handle |-> [handle EXCEPT !.bytes_copied = @ + FVDE_VOLUME_HEADER_SIZE],
     destination |-> FileWrite(file, 0, FVDE_VOLUME_HEADER_SIZE, -1,
                               CorrectedVolumeHeader(handle, SourceVolumeHeader(image)))]

\* dump_handle_close, and the descriptors' part of dump_handle_free: both
\* descriptors are closed when open and set to -1.
dump_handle_close(handle) == [handle EXCEPT !.source_fd = -1, !.destination_fd = -1]

\* A loop head that never looks at the abort flag.
copy_region_poll_ignoring_abort(handle, copy) ==
    IF copy.remaining = 0 THEN "return" ELSE "chunk"

\* What one pass through the head of the loop of dump_handle_copy_region
\* decides: leave the loop, give up on the abort flag, or copy a chunk.
CopyRegionPollOutcome(handle, copy) ==
    IF copy.remaining = 0 THEN "return"
    ELSE IF handle.abort # 0 THEN "abort requested"
    ELSE "chunk"

\* =========================================================================
\* fvdedump: main, step by step; the signal handler may run between any two
\* steps.
\* =========================================================================

\* The command lines and files fvdedump is run on. The destination exists
\* or not, with and without --force; a compact dump that goes on to write is
\* run on every image from an empty path and on one image for the others.
DumpRuns ==
    { run \in [image : SourceImages, compact : {0, 1}, force : {0, 1},
               destination : {NoFile, ExistingFile}] :
        (run.compact = 1 /\ (run.force = 1 \/ ~run.destination.exists))
            => \/ (run.force = 0 /\ ~run.destination.exists)
               \/ run.image.name = "encrypted metadata 1 only" }

InitDump ==
    /\ volume_state = fvdecheck_volume_state_initialize
    /\ heap = <<>>
    /\ result = NoResult
    /\ walk = NoWalk
    /\ \E run \in DumpRuns :
        /\ dump_handle = [dump_handle_initialize EXCEPT !.force = run.force,
                                                        !.compact = run.compact]
        /\ disk = [image |-> run.image, destination |-> run.destination]
    /\ dump = [NoDump EXCEPT !.pc = "open_source"]
    /\ KeysIdle

\* One of the accesses lies outside the buffer of buffer_size bytes.
OutOfBounds(accesses, buffer_size) ==
    \E access \in accesses : ~InBuffer(access.index, access.size, buffer_size)

\* The outcomes of a call that makes the accesses `accesses`
Outcomes(accesses, buffer_size) ==
    IF OutOfBounds(accesses, buffer_size) THEN OutOfBoundsOutcomes ELSE {NothingBeyond}

\* The state of main after a call of the dump handle returned rc.
AfterCall(rc, next_pc) ==
    IF rc = 1 THEN [dump EXCEPT !.pc = next_pc] ELSE [dump EXCEPT !.pc = "on_error", !.rc = -1]

\* A copy that writes every region at the offset it was read from.
copy_region_call_in_place(control, source_offset, destination_offset, size, region_name, return_pc, advance) ==
    IF size = 0
    THEN [control EXCEPT !.pc = return_pc, !.current_offset = @ + advance]
    ELSE [control EXCEPT !.pc = "copy_poll", !.return_pc = return_pc, !.advance = advance,
                         !.copy = [region |-> region_name,
                                   source_offset |-> source_offset,
                                   destination_offset |-> source_offset,
                                   size |-> size, remaining |-> size, bytes_to_copy |-> 0,
                                   written |-> 0, status |-> "running",
                                   signalled_at |-> -1]]

\* The start of dump_handle_copy_region, up to the first pass through the
\* loop; a region of size 0 returns 1 at once. `advance` is what the caller
\* adds to current_offset after the copy returned 1.
CopyRegionCall(control, source_offset, destination_offset, size, region_name, return_pc, advance) ==
    IF size = 0
    THEN [control EXCEPT !.pc = return_pc, !.current_offset = @ + advance]
    ELSE [control EXCEPT !.pc = "copy_poll", !.return_pc = return_pc, !.advance = advance,
                         !.copy = [region |-> region_name,
                                   source_offset |-> source_offset,
                                   destination_offset |-> destination_offset,
                                   size |-> size, remaining |-> size, bytes_to_copy |-> 0,
                                   written |-> 0, status |-> "running",
                                   signalled_at |-> -1]]

DumpOpenSource ==
    /\ dump.pc = "open_source"
    /\ dump_handle' = [dump_handle EXCEPT !.source_fd = SourceDescriptor]
    /\ dump' = AfterCall(1, "read_volume_header")
    /\ UNCHANGED <<disk, check_vars, key_vars>>

DumpReadVolumeHeader ==
    /\ dump.pc = "read_volume_header"
    /\ LET call == dump_handle_read_volume_header(dump_handle, SourceVolumeHeader(disk.image))
       IN  /\ dump_handle' = call.dump_handle
           /\ dump' = AfterCall(call.rc, "read_metadata")
    /\ UNCHANGED <<disk, check_vars, key_vars>>

DumpReadMetadata ==
    /\ dump.pc = "read_metadata"
    /\ \E beyond \in Outcomes(dump_handle_read_metadata(dump_handle, disk.image, NothingBeyond).accesses,
                              dump_handle.metadata_size) :
         LET call == dump_handle_read_metadata(dump_handle, disk.image, beyond)
         IN  IF OutOfBounds(call.accesses, dump_handle.metadata_size) /\ beyond.crash
             THEN /\ dump' = [dump EXCEPT !.pc = "crashed", !.accesses = call.accesses]
                  /\ UNCHANGED dump_handle
             ELSE /\ dump_handle' = call.dump_handle
                  /\ dump' = [AfterCall(call.rc, "open_destination") EXCEPT
                                 !.accesses = call.accesses]
    /\ UNCHANGED <<disk, check_vars, key_vars>>

DumpOpenDestination ==
    /\ dump.pc = "open_destination"
    /\ LET call == dump_handle_open_destination(dump_handle, disk.destination)
       IN  /\ dump_handle' = call.dump_handle
           /\ disk' = [disk EXCEPT !.destination = call.destination]
           /\ dump' = AfterCall(call.rc, "dump")
    /\ UNCHANGED <<check_vars, key_vars>>

\* dump_handle_dump up to the metadata loop: the sparse file's size and the
\* volume header.
DumpVolumeHeader ==
    /\ dump.pc = "dump"
    /\ IF dump_handle.compact = 0
       THEN /\ dump_handle' = [dump_handle EXCEPT !.bytes_copied = 0]
            /\ disk' = [disk EXCEPT !.destination =
                           FileTruncate(@, dump_handle.physical_volume_size)]
            /\ dump' = CopyRegionCall([dump EXCEPT !.current_offset = 0, !.metadata_index = 0],
                                      0, 0, FVDE_VOLUME_HEADER_SIZE, "volume header",
                                      "metadata", 0)
       ELSE LET call == dump_handle_write_corrected_volume_header(
                            [dump_handle EXCEPT !.bytes_copied = 0], disk.image,
                            disk.destination)
            IN  /\ dump_handle' = call.dump_handle
                /\ disk' = [disk EXCEPT !.destination = call.destination]
                /\ dump' = [AfterCall(call.rc, "metadata") EXCEPT
                               !.current_offset = dump_handle.block_size,
                               !.metadata_index = 0]
    /\ UNCHANGED <<check_vars, key_vars>>

\* One pass of the metadata loop of dump_handle_dump.
DumpMetadata ==
    /\ dump.pc = "metadata"
    /\ LET metadata_index == dump.metadata_index
           next_pc == IF metadata_index + 1 < 4 THEN "metadata" ELSE "encrypted_metadata1"
           compact_encrypted_metadata1_offset ==
               dump_handle.block_size + (4 * dump_handle.metadata_size)
           compact_encrypted_metadata2_offset ==
               compact_encrypted_metadata1_offset + dump_handle.encrypted_metadata_size
       IN  IF dump_handle.compact # 0
           THEN \E beyond \in Outcomes(CorrectedMetadataAccesses(
                                             dump_handle,
                                             SourceMetadataAt(disk.image,
                                                 dump_handle.metadata_offsets[metadata_index + 1]),
                                             NothingBeyond),
                                         dump_handle.metadata_size) :
                LET call == dump_handle_write_corrected_metadata(
                                dump_handle, disk.image, disk.destination,
                                dump_handle.metadata_offsets[metadata_index + 1],
                                dump.current_offset,
                                compact_encrypted_metadata1_offset,
                                compact_encrypted_metadata2_offset, beyond)
                IN  IF OutOfBounds(call.accesses, dump_handle.metadata_size) /\ beyond.crash
                    THEN /\ dump' = [dump EXCEPT !.pc = "crashed", !.accesses = call.accesses]
                         /\ UNCHANGED <<dump_handle, disk>>
                    ELSE /\ dump_handle' = call.dump_handle
                         /\ disk' = [disk EXCEPT !.destination = call.destination]
                         /\ dump' = [AfterCall(call.rc, next_pc) EXCEPT
                                        !.current_offset = @ + dump_handle.metadata_size,
                                        !.metadata_index = metadata_index + 1,
                                        !.accesses = call.accesses]
           ELSE /\ dump' = CopyRegionCall(
                               [dump EXCEPT !.metadata_index = metadata_index + 1],
                               dump_handle.metadata_offsets[metadata_index + 1],
                               dump_handle.metadata_offsets[metadata_index + 1],
                               dump_handle.metadata_size, "metadata", next_pc, 0)
                /\ UNCHANGED <<dump_handle, disk>>
    /\ UNCHANGED <<check_vars, key_vars>>

DumpEncryptedMetadata1 ==
    /\ dump.pc = "encrypted_metadata1"
    /\ dump' =
         IF dump_handle.encrypted_metadata1_offset = 0
         THEN [dump EXCEPT !.pc = "encrypted_metadata2"]
         ELSE IF dump_handle.compact # 0
         THEN CopyRegionCall(dump, dump_handle.encrypted_metadata1_offset,
                             dump.current_offset, dump_handle.encrypted_metadata_size,
                             "encrypted metadata 1", "encrypted_metadata2",
                             dump_handle.encrypted_metadata_size)
         ELSE CopyRegionCall(dump, dump_handle.encrypted_metadata1_offset,
                             dump_handle.encrypted_metadata1_offset,
                             dump_handle.encrypted_metadata_size,
                             "encrypted metadata 1", "encrypted_metadata2", 0)
    /\ UNCHANGED <<dump_handle, disk, check_vars, key_vars>>

DumpEncryptedMetadata2 ==
    /\ dump.pc = "encrypted_metadata2"
    /\ dump' =
         IF dump_handle.encrypted_metadata2_offset = 0
         THEN [dump EXCEPT !.pc = "close", !.rc = 1]
         ELSE IF dump_handle.compact # 0
         THEN CopyRegionCall(dump, dump_handle.encrypted_metadata2_offset,
                             dump.current_offset, dump_handle.encrypted_metadata_size,
                             "encrypted metadata 2", "close",
                             dump_handle.encrypted_metadata_size)
         ELSE CopyRegionCall(dump, dump_handle.encrypted_metadata2_offset,
                             dump_handle.encrypted_metadata2_offset,
                             dump_handle.encrypted_metadata_size,
                             "encrypted metadata 2", "close", 0)
    /\ UNCHANGED <<dump_handle, disk, check_vars, key_vars>>

\* The head of the loop of dump_handle_copy_region.
CopyRegionPoll ==
    /\ dump.pc = "copy_poll"
    /\ LET outcome == CopyRegionPollOutcome(dump_handle, dump.copy)
       IN  dump' =
             IF outcome = "return"
             THEN [dump EXCEPT !.pc = dump.return_pc,
                               !.current_offset = @ + dump.advance,
                               !.copy.status = "returned"]
             ELSE IF outcome = "abort requested"
             THEN [dump EXCEPT !.pc = "on_error", !.rc = -1,
                               !.copy.status = "abort requested"]
             ELSE [dump EXCEPT !.pc = "copy_read",
                               !.copy.bytes_to_copy =
                                   IF dump.copy.remaining > CopyBufferSize
                                   THEN CopyBufferSize ELSE dump.copy.remaining]
    /\ UNCHANGED <<dump_handle, disk, check_vars, key_vars>>

\* read( source_fd, buffer, bytes_to_copy )
CopyRegionRead ==
    /\ dump.pc = "copy_read"
    /\ dump' = [dump EXCEPT !.pc = "copy_write"]
    /\ UNCHANGED <<dump_handle, disk, check_vars, key_vars>>

\* write( destination_fd, buffer, bytes_to_copy ) and the loop's bookkeeping
CopyRegionWrite ==
    /\ dump.pc = "copy_write"
    /\ disk' = [disk EXCEPT !.destination =
                   FileWrite(@, dump.copy.destination_offset + dump.copy.written,
                             dump.copy.bytes_to_copy,
                             dump.copy.source_offset + dump.copy.written, <<>>)]
    /\ dump_handle' = [dump_handle EXCEPT !.bytes_copied = @ + dump.copy.bytes_to_copy]
    /\ dump' = [dump EXCEPT !.pc = "copy_poll",
                            !.copy.remaining = @ - dump.copy.bytes_to_copy,
                            !.copy.written = @ + dump.copy.bytes_to_copy]
    /\ UNCHANGED <<check_vars, key_vars>>

\* dump_handle_close after a dump that returned 1
DumpClose ==
    /\ dump.pc = "close"
    /\ dump_handle' = dump_handle_close(dump_handle)
    /\ dump' = [dump EXCEPT !.pc = "free"]
    /\ UNCHANGED <<disk, check_vars, key_vars>>

\* dump_handle_free, at the end of main and at on_error
DumpFree ==
    /\ dump.pc \in {"free", "on_error"}
    /\ dump_handle' = dump_handle_close(dump_handle)
    /\ dump' = [dump EXCEPT !.pc = "exit"]
    /\ UNCHANGED <<disk, check_vars, key_vars>>

\* fvdedump_signal_handler calling dump_handle_signal_abort, at any moment
\* between dump_handle_initialize and dump_handle_free. copy.signalled_at
\* notes how much of the region in progress was written at that moment.
SignalAbort ==
    /\ dump.pc \notin {"idle", "exit", "crashed"}
    /\ dump_handle.abort = 0
    /\ dump_handle' = [dump_handle EXCEPT !.abort = 1]
    /\ dump' = IF dump.copy.status = "running"
               THEN [dump EXCEPT !.copy.signalled_at = dump.copy.written]
               ELSE dump
    /\ UNCHANGED <<disk, check_vars, key_vars>>

NextDump ==
    \/ DumpOpenSource
    \/ DumpReadVolumeHeader
    \/ DumpReadMetadata
    \/ DumpOpenDestination
    \/ DumpVolumeHeader
    \/ DumpMetadata
    \/ DumpEncryptedMetadata1
    \/ DumpEncryptedMetadata2
    \/ CopyRegionPoll
    \/ CopyRegionRead
    \/ CopyRegionWrite
    \/ DumpClose
    \/ DumpFree
    \/ SignalAbort

SpecDump == InitDump /\ [][NextDump]_vars

\* =========================================================================
\* Key material: keyring_handle, dmsetup_handle, fvdedmsetup, check_handle
\* =========================================================================

\* The special keyring identifiers of keyutils.h
KEY_SPEC_SESSION_KEYRING == 0 - 3
KEY_SPEC_USER_KEYRING == 0 - 4
KEY_SPEC_USER_SESSION_KEYRING == 0 - 5

\* "%02x" of one byte
HexDigits == <<"0", "1", "2", "3", "4", "5", "6", "7", "8", "9", "a", "b", "c", "d", "e", "f">>
FormatHexByte(byte) == HexDigits[(byte \div 16) + 1] \o HexDigits[(byte % 16) + 1]

RECURSIVE FormatHexBytes(_, _, _)
FormatHexBytes(data, first, last) ==
    IF first > last THEN ""
    ELSE FormatHexByte(data[first]) \o FormatHexBytes(data, first + 1, last)

\* keyring_handle_format_uuid_string: rc -1 for a wrongly sized argument, else
\* the 36 characters 8-4-4-4-12 in lower case. (The callers pass arrays, never
\* NULL.)
keyring_handle_format_uuid_string(uuid_data, uuid_data_size, uuid_string_size) ==
    IF uuid_data_size # 16 \/ uuid_string_size < 37
    THEN [rc |-> -1, uuid_string |-> ""]
    ELSE [rc |-> 1,
          uuid_string |-> FormatHexBytes(uuid_data, 1, 4) \o "-" \o
                          FormatHexBytes(uuid_data, 5, 6) \o "-" \o
                          FormatHexBytes(uuid_data, 7, 8) \o "-" \o
                          FormatHexBytes(uuid_data, 9, 10) \o "-" \o
                          FormatHexBytes(uuid_data, 11, 16)]

\* A char * argument: NULL, or the characters of the string
NullString == [null |-> TRUE, string |-> <<>>]
CString(characters) == [null |-> FALSE, string |-> characters]

\* A char * argument whose string is used as a whole
NullName == [null |-> TRUE, string |-> ""]
Name(string) == [null |-> FALSE, string |-> string]

\* atoi of a string given as its characters: an optional sign, then the
\* decimal digits up to the first other character.
DecimalDigits == <<"0", "1", "2", "3", "4", "5", "6", "7", "8", "9">>
IsDecimalDigit(character) == \E d \in 1 .. 10 : DecimalDigits[d] = character
DecimalDigitValue(character) == (CHOOSE d \in 1 .. 10 : DecimalDigits[d] = character) - 1

RECURSIVE AtoiDigits(_, _, _)
AtoiDigits(string, index, value) ==
    IF index > Len(string) \/ ~IsDecimalDigit(string[index]) THEN value
    ELSE AtoiDigits(string, index + 1, (10 * value) + DecimalDigitValue(string[index]))

atoi(string) ==
    IF string # <<>> /\ string[1] = "-" THEN 0 - AtoiDigits(string, 2, 0)
    ELSE IF string # <<>> /\ string[1] = "+" THEN AtoiDigits(string, 2, 0)
    ELSE AtoiDigits(string, 1, 0)

\* add_key(2) of the kernel: a key of the same type and description in the
\* same keyring is updated, any other key is added.
KernelAddKey(kr, type, description, payload, keyring_id_value) ==
    LET key == [type |-> type, description |-> description, payload |-> payload,
                keyring |-> keyring_id_value]
        Same(i) == /\ kr[i].type = type
                   /\ kr[i].description = description
                   /\ kr[i].keyring = keyring_id_value
    IN  IF \E i \in 1 .. Len(kr) : Same(i)
        THEN [i \in 1 .. Len(kr) |-> IF Same(i) THEN key ELSE kr[i]]
        ELSE Append(kr, key)

\* keyring_handle_add_key with the tweak key copied in front of the master key
add_key_tweak_key_first(volume_master_key, volume_master_key_size, volume_tweak_key, volume_tweak_key_size, uuid_data, uuid_data_size, keyring_id, kernel_accepts, kr) ==
    LET formatted == keyring_handle_format_uuid_string(uuid_data, uuid_data_size, 64)
    IN  IF kernel_accepts
        THEN [called |-> TRUE, copied |-> TRUE, rc |-> 1, path |-> "added",
              combined_key |-> Zeros(48),
              keyring |-> KernelAddKey(kr, "logon", "fvde:" \o formatted.uuid_string,
                                       volume_tweak_key \o volume_master_key,
                                       KEY_SPEC_SESSION_KEYRING)]
        ELSE [called |-> TRUE, copied |-> TRUE, rc |-> -1,
              path |-> "unable to add key to keyring",
              combined_key |-> volume_tweak_key \o volume_master_key, keyring |-> kr]

\* keyring_handle_add_key on a build with keyutils. The record returned holds
\* the return code, the return statement taken, the kernel keyring afterwards
\* and the bytes combined_key[ 48 ] holds at the return (copied tells whether
\* the keys were copied into it).
keyring_handle_add_key(volume_master_key, volume_master_key_size, volume_tweak_key, volume_tweak_key_size, uuid_data, uuid_data_size, keyring_id, kernel_accepts, kr) ==
    LET formatted == keyring_handle_format_uuid_string(uuid_data, uuid_data_size, 64)
        key_description == "fvde:" \o formatted.uuid_string
        combined_key == volume_master_key \o volume_tweak_key
        keyring_id_value ==
            IF keyring_id.null THEN KEY_SPEC_SESSION_KEYRING
            ELSE IF keyring_id.string = <<"@", "s">> THEN KEY_SPEC_SESSION_KEYRING
            ELSE IF keyring_id.string = <<"@", "u">> THEN KEY_SPEC_USER_KEYRING
            ELSE IF keyring_id.string = <<"@", "u", "s">> THEN KEY_SPEC_USER_SESSION_KEYRING
            ELSE atoi(keyring_id.string)
        Return(rc, path, copied, buffer, new_keyring) ==
            [called |-> TRUE, copied |-> copied, rc |-> rc, path |-> path,
             combined_key |-> buffer, keyring |-> new_keyring]
    IN  IF \/ volume_master_key_size # 16
           \/ volume_tweak_key_size # 32
           \/ uuid_data_size # 16
        THEN Return(-1, "invalid argument", FALSE, <<>>, kr)
        ELSE IF formatted.rc # 1
        THEN Return(-1, "unable to format UUID string", FALSE, <<>>, kr)
        ELSE IF keyring_id_value = 0
        THEN Return(-1, "unsupported keyring ID", TRUE, combined_key, kr)
        ELSE IF ~kernel_accepts
        THEN Return(-1, "unable to add key to keyring", TRUE, combined_key, kr)
        ELSE Return(1, "added", TRUE, Zeros(48),
                    KernelAddKey(kr, "logon", key_description, combined_key, keyring_id_value))

\* dmsetup_handle_print_table_entry counting the sectors in blocks of 4096
\* bytes and the volumes from 0
print_table_entry_in_blocks(uuid_data, uuid_data_size, volume_size_in_bytes, source_path, volume_offset_in_bytes, shell_mode, mapper_name, volume_index) ==
    LET formatted == keyring_handle_format_uuid_string(uuid_data, uuid_data_size, 37)
        target == [start |-> 0, size_in_sectors |-> volume_size_in_bytes \div 4096,
                   type |-> "crypt", cipher |-> "aes-xts-plain64",
                   key |-> ":48:logon:fvde:" \o formatted.uuid_string, iv_offset |-> 0,
                   source_path |-> source_path.string,
                   offset_in_sectors |-> volume_offset_in_bytes \div 4096]
    IN  IF shell_mode # 0
        THEN [rc |-> 1,
              lines |-> << [echo |-> target,
                            dmsetup_create |-> [mapper_name |-> mapper_name,
                                                volume_index |-> volume_index - 1]] >>]
        ELSE [rc |-> 1, lines |-> << [table |-> target] >>]

\* dmsetup_handle_print_table_entry: the line written to the stream, or
\* nothing with rc -1.
dmsetup_handle_print_table_entry(uuid_data, uuid_data_size, volume_size_in_bytes, source_path, volume_offset_in_bytes, shell_mode, mapper_name, volume_index) ==
    LET formatted == keyring_handle_format_uuid_string(uuid_data, uuid_data_size, 37)
        size_in_sectors == volume_size_in_bytes \div 512
        offset_in_sectors == volume_offset_in_bytes \div 512
        target == [start |-> 0, size_in_sectors |-> size_in_sectors, type |-> "crypt",
                   cipher |-> "aes-xts-plain64",
                   key |-> ":48:logon:fvde:" \o formatted.uuid_string, iv_offset |-> 0,
                   source_path |-> source_path.string, offset_in_sectors |-> offset_in_sectors]
    IN  IF source_path.null \/ formatted.rc # 1
        THEN [rc |-> -1, lines |-> <<>>]
        ELSE IF shell_mode # 0
        THEN [rc |-> 1,
              lines |-> << [echo |-> target,
                            dmsetup_create |-> [mapper_name |-> mapper_name,
                                                volume_index |-> volume_index]] >>]
        ELSE [rc |-> 1, lines |-> << [table |-> target] >>]

\* The volume master key, the tweak key and the identifier of logical volume n
MasterKey(n) == [k \in 1 .. 16 |-> (16 * n) + k]
TweakKey(n) == [k \in 1 .. 32 |-> (100 + (32 * n)) + k]
Uuid(n) == [k \in 1 .. 16 |-> ((171 * n) + (9 * k)) % 256]

\* The logical volumes fvdedmsetup finds in the volume group after
\* mount_handle_open, and the command lines it is run with.
DmsetupLogicalVolumes ==
    { [identifier |-> Uuid(n), size |-> size, is_locked |-> is_locked,
       name |-> IF n = 1 THEN "Macintosh HD" ELSE "",
       volume_master_key |-> MasterKey(n), volume_tweak_key |-> TweakKey(n)] :
        n \in {1, 2}, size \in {8 * 512, 1000}, is_locked \in {0, 1} }

DmsetupOptions ==
    [dry_run : {0, 1}, shell_mode : {0, 1},
     keyring_id : {NullString, CString(<<"@", "u">>), CString(<<"1", "7">>),
                   CString(<<"b", "o", "g", "u", "s">>)},
     mapper_name : {NullName, Name("vol")}, source_path : {Name("/dev/sda2")},
     volume_offset : {0, 1124}]

DmsetupRuns ==
    [options : DmsetupOptions,
     logical_volumes : {<<a>> : a \in DmsetupLogicalVolumes} \cup
                       {<<a, b>> \in DmsetupLogicalVolumes \X DmsetupLogicalVolumes :
                           a.identifier # b.identifier}]

\* The strings fvdecheck is given as key
KeyStrings ==
    { [k \in 1 .. 32 |-> IF k % 2 = 0 THEN "a" ELSE "1"],
      [k \in 1 .. 32 |-> IF k = 7 THEN "x" ELSE "f"],
      [k \in 1 .. 31 |-> "0"],
      <<>> }

Base16Digits == <<"0", "1", "2", "3", "4", "5", "6", "7", "8", "9", "a", "b", "c", "d", "e", "f">>
IsBase16Digit(character) == \E d \in 1 .. 16 : Base16Digits[d] = character
Base16DigitValue(character) == (CHOOSE d \in 1 .. 16 : Base16Digits[d] = character) - 1

\* libuna_base16_stream_copy_to_byte_stream: the bytes of the pairs of digits
\* are stored one after the other; a character that is no digit ends the copy
\* with rc -1 and leaves the bytes stored before it in the byte stream.
RECURSIVE Base16Copy(_, _, _)
Base16Copy(string, index, byte_stream) ==
    IF index > Len(string) THEN [rc |-> 1, byte_stream |-> byte_stream]
    ELSE IF index + 1 > Len(string) \/ ~IsBase16Digit(string[index]) \/ ~IsBase16Digit(string[index + 1])
    THEN [rc |-> -1, byte_stream |-> byte_stream]
    ELSE Base16Copy(string, index + 2,
                    [byte_stream EXCEPT ![(index + 1) \div 2] =
                        (16 * Base16DigitValue(string[index])) + Base16DigitValue(string[index + 1])])

\* check_handle_set_key
check_handle_set_key(handle, string) ==
    LET copied == Base16Copy(string, 1, Zeros(16))
        on_error == [handle EXCEPT !.key_data = Zeros(16), !.key_data_size = 0, !.rc = -1]
    IN  IF Len(string) # 32 THEN on_error
        ELSE IF copied.rc # 1 THEN on_error
        ELSE [handle EXCEPT !.key_data = copied.byte_stream, !.key_data_size = 16, !.rc = 1]

\* check_handle_free: key_data holds the bytes the released memory is left with
check_handle_free(handle) ==
    [handle EXCEPT !.allocated = FALSE, !.key_data = Zeros(16), !.rc = 1]

\* ------------------------------------------------ key material: the actions
\* fvdedmsetup main after mount_handle_open, or fvdecheck holding its handle
InitKeys ==
    /\ volume_state = fvdecheck_volume_state_initialize
    /\ heap = <<>>
    /\ result = NoResult
    /\ walk = NoWalk
    /\ DumpIdle
    /\ keyring = <<>>
    /\ check_handle = check_handle_initialize
    /\ \/ dmsetup = NoDmsetup
       \/ \E run \in DmsetupRuns :
            dmsetup = [NoDmsetup EXCEPT !.pc = "loop", !.options = run.options,
                                        !.logical_volumes = run.logical_volumes]

CurrentLogicalVolume == dmsetup.logical_volumes[dmsetup.logical_volume_index + 1]

\* One pass of the loop of main up to the key: the logical volume is
\* retrieved and fvdedmsetup_process_logical_volume tests the lock and
\* chooses the mapper name. A logical volume carries its keyring from its
\* creation, so the test for a missing keyring never fails.
DmsetupProcessLogicalVolume ==
    /\ dmsetup.pc = "loop"
    /\ dmsetup.logical_volume_index < Len(dmsetup.logical_volumes)
    /\ LET logical_volume == CurrentLogicalVolume
           mapper_name == dmsetup.options.mapper_name
           effective_mapper_name ==
               IF mapper_name.null
               THEN IF logical_volume.name # "" THEN logical_volume.name ELSE "fvde"
               ELSE mapper_name.string
       IN  dmsetup' =
               IF logical_volume.is_locked # 0
               THEN [dmsetup EXCEPT !.pc = "on_error"]
               ELSE [dmsetup EXCEPT !.effective_mapper_name = effective_mapper_name,
                                    !.pc = IF dmsetup.options.dry_run = 0 THEN "add_key"
                                           ELSE "print"]
    /\ UNCHANGED <<keyring, check_handle, check_vars, dump_vars>>

\* keyring_handle_add_key called by fvdedmsetup_process_logical_volume
DmsetupAddKey ==
    /\ dmsetup.pc = "add_key"
    /\ \E kernel_accepts \in BOOLEAN :
        LET logical_volume == CurrentLogicalVolume
            returned == keyring_handle_add_key(logical_volume.volume_master_key, 16,
                                               logical_volume.volume_tweak_key, 32,
                                               logical_volume.identifier, 16,
                                               dmsetup.options.keyring_id, kernel_accepts, keyring)
        IN  /\ keyring' = returned.keyring
            /\ dmsetup' = [dmsetup EXCEPT
                   !.add_key = [called |-> returned.called, copied |-> returned.copied,
                                rc |-> returned.rc, path |-> returned.path,
                                combined_key |-> returned.combined_key],
                   !.pc = IF returned.rc # 1 THEN "on_error" ELSE "print"]
    /\ UNCHANGED <<check_handle, check_vars, dump_vars>>

\* dmsetup_handle_print_table_entry called by
\* fvdedmsetup_process_logical_volume, and the end of the pass of the loop
DmsetupPrintTableEntry ==
    /\ dmsetup.pc = "print"
    /\ LET logical_volume == CurrentLogicalVolume
           printed == dmsetup_handle_print_table_entry(
                          logical_volume.identifier, 16, logical_volume.size,
                          dmsetup.options.source_path, dmsetup.options.volume_offset,
                          dmsetup.options.shell_mode, dmsetup.effective_mapper_name,
                          dmsetup.logical_volume_index + 1)
       IN  dmsetup' = [dmsetup EXCEPT
               !.stdout = dmsetup.stdout \o printed.lines,
               !.logical_volume_index = IF printed.rc = 1 THEN @ + 1 ELSE @,
               !.pc = IF printed.rc = 1 THEN "loop" ELSE "on_error"]
    /\ UNCHANGED <<keyring, check_handle, check_vars, dump_vars>>

\* main after the last logical volume
DmsetupClose ==
    /\ dmsetup.pc = "loop"
    /\ dmsetup.logical_volume_index >= Len(dmsetup.logical_volumes)
    /\ dmsetup' = [dmsetup EXCEPT !.pc = "exit", !.rc = "EXIT_SUCCESS"]
    /\ UNCHANGED <<keyring, check_handle, check_vars, dump_vars>>

\* on_error of main
DmsetupOnError ==
    /\ dmsetup.pc = "on_error"
    /\ dmsetup' = [dmsetup EXCEPT !.pc = "exit", !.rc = "EXIT_FAILURE"]
    /\ UNCHANGED <<keyring, check_handle, check_vars, dump_vars>>

\* fvdecheck sets the key given on its command line
CheckHandleSetKey ==
    /\ dmsetup.pc = "idle"
    /\ check_handle.allocated
    /\ \E string \in KeyStrings : check_handle' = check_handle_set_key(check_handle, string)
    /\ UNCHANGED <<dmsetup, keyring, check_vars, dump_vars>>

CheckHandleFree ==
    /\ dmsetup.pc = "idle"
    /\ check_handle.allocated
    /\ check_handle' = check_handle_free(check_handle)
    /\ UNCHANGED <<dmsetup, keyring, check_vars, dump_vars>>

NextKeys ==
    \/ DmsetupProcessLogicalVolume
    \/ DmsetupAddKey
    \/ DmsetupPrintTableEntry
    \/ DmsetupClose
    \/ DmsetupOnError
    \/ CheckHandleSetKey
    \/ CheckHandleFree

SpecKeys == InitKeys /\ [][NextKeys]_vars

\* =========================================================================
\* Properties
\* =========================================================================

\* The extents reached from `current` by following phys_next, at most `fuel`
\* of them (a cyclic list would otherwise never end).
RECURSIVE PhysWalk(_, _, _)
PhysWalk(hp, current, fuel) ==
    IF current = NULL \/ fuel = 0 THEN <<>>
    ELSE <<current>> \o PhysWalk(hp, hp[current].phys_next, fuel - 1)

RECURSIVE LogicalWalk(_, _, _)
LogicalWalk(hp, current, fuel) ==
    IF current = NULL \/ fuel = 0 THEN <<>>
    ELSE <<current>> \o LogicalWalk(hp, hp[current].logical_next, fuel - 1)

\* The list of a volume as traversed from its head.
PhysList(pv) == PhysWalk(heap, volume_state.physical_volumes[pv].extent_list_head, Len(heap) + 1)
LogicalList(lv) == LogicalWalk(heap, volume_state.logical_volumes[lv].extent_list_head, Len(heap) + 1)

PVs == DOMAIN volume_state.physical_volumes
LVs == DOMAIN volume_state.logical_volumes
Extents == 1 .. Len(heap)

Occurrences(list, x) == Cardinality({i \in 1 .. Len(list) : list[i] = x})

PhysEnd(e) == heap[e].physical_block_start + heap[e].physical_block_count

Max(a, b) == IF a > b THEN a ELSE b
Min(a, b) == IF a < b THEN a ELSE b

\* [s, s + c) and the range of extent e have a block in common
Intersects(e, s, c) == Max(s, heap[e].physical_block_start) < Min(s + c, PhysEnd(e))

\* the ranges of extents a and b have a block in common
RangesIntersect(a, b) == Intersects(a, heap[b].physical_block_start, heap[b].physical_block_count)

\* C1: in every volume state the walker produces, each physical volume's
\* list has strictly increasing physical_block_start and no two of its
\* extents overlap (their half-open ranges have no block in common).
C1_WalkerListsStrictlySortedDisjoint ==
    walk.pc = "done" =>
        \A pv \in PVs :
            LET l == PhysList(pv) IN
            \A i, j \in 1 .. Len(l) :
                i < j => /\ heap[l[i]].physical_block_start < heap[l[j]].physical_block_start
                         /\ ~RangesIntersect(l[i], l[j])

\* C2: traversing a physical volume's list yields non-decreasing
\* physical_block_start, traversing a logical volume's list yields
\* non-decreasing logical_block_start, and of two extents with an equal key
\* the one inserted later (the larger heap index) comes later.
C2_ListsSortedStable ==
    /\ \A pv \in PVs :
          LET l == PhysList(pv) IN
          \A i, j \in 1 .. Len(l) :
              i < j => /\ heap[l[i]].physical_block_start <= heap[l[j]].physical_block_start
                       /\ (heap[l[i]].physical_block_start = heap[l[j]].physical_block_start
                             => l[i] < l[j])
    /\ \A lv \in LVs :
          LET l == LogicalList(lv) IN
          \A i, j \in 1 .. Len(l) :
              i < j => /\ heap[l[i]].logical_block_start <= heap[l[j]].logical_block_start
                       /\ (heap[l[i]].logical_block_start = heap[l[j]].logical_block_start
                             => l[i] < l[j])

\* A physical list of three extents that were not inserted in list order
\* and hold an equal key, and a logical list not in insertion order.
C2_Witness ==
    /\ \E pv \in PVs :
          LET l == PhysList(pv) IN
          /\ Len(l) = 3
          /\ l[2] > l[3]
          /\ \E i \in 1 .. 2 :
                heap[l[i]].physical_block_start = heap[l[i + 1]].physical_block_start
    /\ \E lv \in LVs :
          LET l == LogicalList(lv) IN
          Len(l) = 2 /\ l[1] > l[2]

\* C3: every Allocated extent is exactly once in the list of its physical
\* volume and exactly once in the list of its logical volume, in no other
\* list, and a logical volume's list holds Allocated extents only.
C3_AllocatedInBothLists ==
    /\ \A e \in Extents :
          heap[e].state = FVDECHECK_EXTENT_STATE_ALLOCATED =>
              /\ heap[e].physical_volume_index \in PVs
              /\ heap[e].logical_volume_index \in LVs
              /\ \A pv \in PVs :
                    Occurrences(PhysList(pv), e) =
                        IF pv = heap[e].physical_volume_index THEN 1 ELSE 0
              /\ \A lv \in LVs :
                    Occurrences(LogicalList(lv), e) =
                        IF lv = heap[e].logical_volume_index THEN 1 ELSE 0
    /\ \A lv \in LVs :
          LET l == LogicalList(lv) IN
          \A i \in 1 .. Len(l) : heap[l[i]].state = FVDECHECK_EXTENT_STATE_ALLOCATED

\* Allocated, Reserved and Free extents are stored together.
C3_Witness ==
    /\ \E e \in Extents : heap[e].state = FVDECHECK_EXTENT_STATE_ALLOCATED
    /\ \E e \in Extents : heap[e].state = FVDECHECK_EXTENT_STATE_RESERVED
    /\ \E e \in Extents : heap[e].state = FVDECHECK_EXTENT_STATE_FREE

\* C4: in every volume state the walker produces, no Allocated extent
\* overlaps a Reserved extent of the same physical volume.
C4_WalkerAllocatedAvoidsReserved ==
    walk.pc = "done" =>
        \A a, r \in Extents :
            ( /\ heap[a].state = FVDECHECK_EXTENT_STATE_ALLOCATED
              /\ heap[r].state = FVDECHECK_EXTENT_STATE_RESERVED
              /\ heap[a].physical_volume_index = heap[r].physical_volume_index )
            => ~RangesIntersect(a, r)

\* C5: check_overlap(pv, s, c) returns an extent exactly when a stored
\* extent of that physical volume has a block in common with [s, s + c).
C5_CheckOverlapIffIntersects ==
    \A pv \in PVIndexes, s \in QueryStarts, c \in QueryCounts :
        (fvdecheck_volume_state_check_overlap(volume_state, heap, pv, s, c) # NULL)
        <=> (\E e \in Extents : heap[e].physical_volume_index = pv /\ Intersects(e, s, c))

\* C6: find_physical_extent(pv, b) returns e exactly when e is stored on pv
\* and contains b, and at most one stored extent contains b.
C6_FindPhysicalIffContainsUnique ==
    \A pv \in PVIndexes, b \in QueryStarts :
        LET containing == {e \in Extents : /\ heap[e].physical_volume_index = pv
                                           /\ heap[e].physical_block_start <= b
                                           /\ b < PhysEnd(e)}
            found == fvdecheck_volume_state_find_physical_extent(volume_state, heap, pv, b)
        IN  /\ Cardinality(containing) <= 1
            /\ \A e \in Extents : (found = e) <=> (e \in containing)

\* The totals a pass over every stored extent yields, list links ignored.
RECURSIVE SumCounts(_)
SumCounts(S) ==
    IF S = {} THEN 0
    ELSE LET e == CHOOSE x \in S : TRUE
         IN  heap[e].physical_block_count + SumCounts(S \ {e})

BlocksInState(pv, state) ==
    SumCounts({e \in Extents : heap[e].physical_volume_index = pv /\ heap[e].state = state})

BlocksMapped(lv) ==
    SumCounts({e \in Extents : /\ heap[e].logical_volume_index = lv
                               /\ heap[e].state = FVDECHECK_EXTENT_STATE_ALLOCATED})

StatisticsMatchExtents ==
    /\ \A pv \in PVs :
          LET pv_info == volume_state.physical_volumes[pv] IN
          /\ pv_info.reserved_blocks = BlocksInState(pv, FVDECHECK_EXTENT_STATE_RESERVED)
          /\ pv_info.allocated_blocks = BlocksInState(pv, FVDECHECK_EXTENT_STATE_ALLOCATED)
          /\ pv_info.free_blocks = BlocksInState(pv, FVDECHECK_EXTENT_STATE_FREE)
    /\ \A lv \in LVs :
          LET lv_info == volume_state.logical_volumes[lv] IN
          /\ lv_info.mapped_blocks = BlocksMapped(lv)
          /\ lv_info.mapped_blocks = SumCounts({e \in Extents : Occurrences(LogicalList(lv), e) > 0})
          /\ lv_info.unmapped_blocks = Max(0, lv_info.size_in_blocks - lv_info.mapped_blocks)

\* C7: calculate_statistics leaves every physical volume's reserved,
\* allocated and free blocks equal to the sum of the block counts of its
\* extents in that state, every logical volume's mapped_blocks equal to the
\* sum over its list and unmapped_blocks equal to max(0, size - mapped),
\* whatever statistics were stored before; a second call changes nothing.
C7_StatisticsRecomputed ==
    [][CalculateStatistics =>
          /\ StatisticsMatchExtents'
          /\ fvdecheck_volume_state_calculate_statistics(volume_state', heap') = volume_state'
      ]_vars

\* Statistics were computed on a store holding extents of every state, then
\* another extent was marked and they were computed again.
C7_Witness ==
    /\ StatisticsMatchExtents
    /\ Len(heap) = 3
    /\ \E pv \in PVs :
          /\ volume_state.physical_volumes[pv].reserved_blocks > 0
          /\ volume_state.physical_volumes[pv].allocated_blocks > 0
          /\ volume_state.physical_volumes[pv].free_blocks > 0
    /\ \E lv \in LVs :
          /\ volume_state.logical_volumes[lv].mapped_blocks > 0
          /\ volume_state.logical_volumes[lv].unmapped_blocks > 0

\* C8: add_physical_volume and add_logical_volume succeed for the first 16
\* calls, returning the indices 0..15 in order; every further call fails
\* and changes neither the volume state nor the extents.
C8_VolumeCapacity ==
    [][ /\ CapAddPhysicalVolume =>
             IF volume_state.num_physical_volumes < 16
             THEN /\ result' = [rc |-> 1, index |-> volume_state.num_physical_volumes]
                  /\ volume_state'.num_physical_volumes = volume_state.num_physical_volumes + 1
                  /\ DOMAIN volume_state'.physical_volumes = 0 .. volume_state.num_physical_volumes
             ELSE /\ result'.rc = -1
                  /\ volume_state' = volume_state
                  /\ heap' = heap
        /\ CapAddLogicalVolume =>
             IF volume_state.num_logical_volumes < 16
             THEN /\ result' = [rc |-> 1, index |-> volume_state.num_logical_volumes]
                  /\ volume_state'.num_logical_volumes = volume_state.num_logical_volumes + 1
                  /\ DOMAIN volume_state'.logical_volumes = 0 .. volume_state.num_logical_volumes
             ELSE /\ result'.rc = -1
                  /\ volume_state' = volume_state
                  /\ heap' = heap
      ]_vars

\* Both arrays are full, an extent is stored and the last call failed.
C8_Witness ==
    /\ volume_state.num_physical_volumes = 16
    /\ volume_state.num_logical_volumes = 16
    /\ Len(heap) = 1
    /\ result.rc = -1

\* C9: a mark operation called with a physical volume index that is out of
\* bounds, and mark_allocated called with a logical volume index that is out
\* of bounds, return an error and change neither the volume state
\* (lists, total_extents) nor the extents.
C9_OutOfBoundsMarkChangesNothing ==
    [][ \A pv_index \in PVIndexes :
          LET bad_pv == pv_index >= volume_state.num_physical_volumes
              done(r) == volume_state' = r.vs /\ heap' = r.hp /\ result'.rc = r.rc
              refused == result'.rc = -1 /\ volume_state' = volume_state /\ heap' = heap
          IN  /\ \A block_start \in Starts, block_count \in Counts :
                    (bad_pv /\ done(fvdecheck_volume_state_mark_reserved(
                                   volume_state, heap, pv_index, block_start, block_count)))
                    => refused
              /\ \A block_start \in FreeStarts, block_count \in FreeCounts :
                    (bad_pv /\ done(fvdecheck_volume_state_mark_free(
                                   volume_state, heap, pv_index, block_start, block_count)))
                    => refused
              /\ \A phys_block_start \in Starts, block_count \in AllocCounts,
                    lv_index \in LVIndexes, logical_block_start \in LStarts :
                    ( /\ bad_pv \/ lv_index >= volume_state.num_logical_volumes
                      /\ done(fvdecheck_volume_state_mark_allocated(
                                 volume_state, heap, pv_index, phys_block_start, block_count,
                                 lv_index, logical_block_start)) )
                    => refused
      ]_vars

\* A mark was refused on a store that holds a physical volume with extents
\* and no logical volume.
C9_Witness ==
    /\ result.rc = -1
    /\ volume_state.num_physical_volumes = 1
    /\ volume_state.num_logical_volumes = 0
    /\ Len(heap) = 2
    /\ volume_state.total_extents = 2

\* check_handle_print_json: the "errors" array it prints
check_handle_print_json_errors == <<>>

\* C10: when the walk has marked an allocation whose range has a block in
\* common with an extent stored earlier on the same physical volume, the
\* violation is recorded: error_count and the report's errors[] are
\* non-empty when the walk is done.
C10_WalkerRecordsOverlap ==
    ( /\ walk.pc = "done"
      /\ \E a, e \in Extents :
            /\ e < a
            /\ heap[a].state = FVDECHECK_EXTENT_STATE_ALLOCATED
            /\ heap[a].physical_volume_index = heap[e].physical_volume_index
            /\ RangesIntersect(a, e) )
    => /\ volume_state.error_count > 0
       /\ Len(check_handle_print_json_errors) > 0

\* The volume state holds the four metadata regions and the encrypted
\* metadata regions as Reserved extents of physical volume 0, and as many
\* Allocated extents as the logical volumes have segment descriptors.
ReservedRegion(start, count) ==
    \E e \in Extents :
       /\ heap[e].state = FVDECHECK_EXTENT_STATE_RESERVED
       /\ heap[e].physical_volume_index = 0
       /\ heap[e].physical_block_start = start
       /\ heap[e].physical_block_count = count

Populated ==
    LET h == walk.volume_header
        md == walk.metadata
        bs == volume_state.block_size
    IN  /\ \A i \in 1 .. 4 :
              ReservedRegion(h.metadata_offsets[i] \div bs, h.metadata_size \div bs)
        /\ (md.present /\ md.encrypted_metadata_size > 0 /\ md.encrypted_metadata1_offset > 0)
              => ReservedRegion(md.encrypted_metadata1_offset \div bs,
                                md.encrypted_metadata_size \div bs)
        /\ (md.present /\ md.encrypted_metadata_size > 0 /\ md.encrypted_metadata2_offset > 0)
              => ReservedRegion(md.encrypted_metadata2_offset \div bs,
                                md.encrypted_metadata_size \div bs)
        /\ Cardinality({e \in Extents : heap[e].state = FVDECHECK_EXTENT_STATE_ALLOCATED})
              = walk.options.descriptors

\* C11: in the check tool a consumer (block lookup, allocation summary,
\* allocation map, JSON report) has run only on a populated volume state.
C11_ConsumersRunAfterPopulation ==
    walk.pc \in {"print", "map", "closed"} => Populated

\* ------------------------------------------------------------------ fvdedump
\* The sum of the sizes of the writes a file received inside [offset, offset + size).
RECURSIVE WrittenInside(_, _, _)
WrittenInside(writes, offset, size) ==
    IF writes = <<>> THEN 0
    ELSE (IF Head(writes).offset >= offset
             /\ Head(writes).offset + Head(writes).size <= offset + size
          THEN Head(writes).size ELSE 0)
         + WrittenInside(Tail(writes), offset, size)

\* dump_handle_copy_region has returned, with 1 or with the abort error.
CopyStopped == dump.copy.status \in {"returned", "abort requested"}

\* C12 as stated: whenever the abort flag was set during the copy of a
\* region, after N complete chunks, the copy ends with the abort error and
\* at least N * 65536 and fewer than (N + 1) * 65536 bytes of the region
\* written, the destination descriptor open.
C12_AbortStopsBeforeTheNextChunk ==
    (/\ CopyStopped
     /\ dump.copy.signalled_at >= 0
     /\ dump.copy.signalled_at % CopyBufferSize = 0) =>
        /\ dump.copy.status = "abort requested"
        /\ dump.copy.written >= dump.copy.signalled_at
        /\ dump.copy.written < dump.copy.signalled_at + CopyBufferSize
        /\ (dump.pc = "on_error" => dump_handle.destination_fd = DestinationDescriptor)

\* C12: the abort flag is polled before each chunk. A poll that finds it set
\* with bytes remaining ends the copy with the abort error without reading
\* or writing: only complete chunks of the region are in the destination,
\* whose descriptor is open until dump_handle_free closes it. A flag set
\* during the copy lets at most the chunk in flight through.
C12_AbortHonouredAtNextPoll ==
    /\ (dump.copy.status = "abort requested") =>
          /\ dump_handle.abort # 0
          /\ dump.copy.remaining > 0
          /\ dump.copy.written % CopyBufferSize = 0
          /\ WrittenInside(disk.destination.writes, dump.copy.destination_offset,
                           dump.copy.size) = dump.copy.written
          /\ (dump.pc = "on_error" => dump_handle.destination_fd = DestinationDescriptor)
          /\ (dump.pc = "exit" => dump_handle.destination_fd = -1)
    /\ (CopyStopped /\ dump.copy.signalled_at >= 0) =>
          /\ dump.copy.written <= dump.copy.signalled_at + CopyBufferSize
          /\ (dump.copy.status = "returned" => dump.copy.remaining = 0)

\* The flag was set at the boundary after two chunks and the copy gave up there.
C12_Witness ==
    /\ dump.copy.status = "abort requested"
    /\ dump.copy.signalled_at = 2 * CopyBufferSize
    /\ dump.copy.written = 2 * CopyBufferSize
    /\ dump.pc = "exit"

\* The last write the destination received.
LastWrite == disk.destination.writes[Len(disk.destination.writes)]

\* dump_handle_write_corrected_metadata has just written metadata copy
\* dump.metadata_index (1..4) of a compact dump.
CorrectedMetadataWritten ==
    /\ dump_handle.compact # 0
    /\ dump.pc \in {"metadata", "encrypted_metadata1"}
    /\ dump.metadata_index >= 1

\* C13: a metadata block the compact rewriter modified carries at bytes
\* [0..4) the weak CRC32 of its bytes [8..metadata_size), computed with the
\* initial value at its bytes [4..8).
C13_ModifiedBlockChecksum ==
    (/\ CorrectedMetadataWritten
     /\ LastWrite.data # SourceMetadata(disk.image, dump.metadata_index)) =>
        Bytes(LastWrite.data, 0, 4)
          = dump_handle_calculate_weak_crc32(LastWrite.data, 8, dump_handle.metadata_size - 8,
                                             Bytes(LastWrite.data, 4, 4))

\* dump_handle_write_corrected_volume_header has just written the header of
\* a compact dump.
CorrectedVolumeHeaderWritten ==
    /\ dump_handle.compact # 0
    /\ dump.pc = "metadata"
    /\ dump.metadata_index = 0

\* C14: the header of a compact dump carries at bytes [0..4) the weak CRC32
\* of its bytes [8..512) as written, slot numbers included, computed with the
\* initial value at its bytes [4..8); outside [0..4) and [104..136) it equals
\* the source's header.
C14_CompactHeaderChecksum ==
    CorrectedVolumeHeaderWritten =>
        /\ LastWrite.offset = 0
        /\ LastWrite.size = FVDE_VOLUME_HEADER_SIZE
        /\ Bytes(LastWrite.data, 0, 4)
             = dump_handle_calculate_weak_crc32(LastWrite.data, 8, 504,
                                                Bytes(LastWrite.data, 4, 4))
        /\ \A k \in (4 .. 103) \cup (136 .. 511) :
              LastWrite.data[k + 1] = SourceVolumeHeader(disk.image)[k + 1]

\* A compact header was written for an image whose initial value is not
\* 0xffffffff, with slot numbers that differ from the source's.
C14_Witness ==
    /\ CorrectedVolumeHeaderWritten
    /\ Bytes(LastWrite.data, 4, 4) = InitialValueOther
    /\ Bytes(LastWrite.data, 104, 32) # Bytes(SourceVolumeHeader(disk.image), 104, 32)

\* The four metadata copies of a compact dump have been written.
CompactMetadataWritten ==
    /\ dump_handle.compact # 0
    /\ dump.pc = "encrypted_metadata1"

\* Slot `metadata_index` (0..3) of the header the destination holds.
WrittenSlot(metadata_index) ==
    Number(Bytes(disk.destination.writes[1].data, 104 + (metadata_index * 8), 8))

\* C15: slot i of a compact header is 1 + i * (metadata_size / block_size),
\* and slot i times block_size is the destination offset at which metadata
\* copy i was written.
C15_SlotsNameTheCopies ==
    CompactMetadataWritten =>
        \A metadata_index \in 0 .. 3 :
            /\ WrittenSlot(metadata_index)
                 = 1 + metadata_index
                         * (dump_handle.metadata_size \div dump_handle.block_size)
            /\ WrittenSlot(metadata_index) * dump_handle.block_size
                 = disk.destination.writes[metadata_index + 2].offset

\* The eight bytes of a block at C index `offset`, or no bytes when they do
\* not lie inside the block.
DescriptorField(data, offset) ==
    IF offset >= 0 /\ offset + 8 <= Len(data) THEN Bytes(data, offset, 8) ELSE <<>>

\* volume_groups_descriptor_offset of metadata copy metadata_index (1..4) of the source
SourceDescriptorOffset(metadata_index) ==
    Uint32(Bytes(SourceMetadata(disk.image, metadata_index), 64 + 156, 4))

\* The block numbers the spec gives for the two regions of a compact dump.
CompactBlockNumber1 ==
    (dump_handle.block_size + 4 * dump_handle.metadata_size) \div dump_handle.block_size
CompactBlockNumber2 ==
    CompactBlockNumber1 + (dump_handle.encrypted_metadata_size \div dump_handle.block_size)

\* C16: in a compact dump a metadata block whose descriptor offset is above
\* 64 is written with the two compact block numbers, as 64-bit values, at
\* the descriptor's +32 and +40; any other block is written as it was read.
C16_DescriptorsRewritten ==
    CorrectedMetadataWritten =>
        IF Uint32Greater(SourceDescriptorOffset(dump.metadata_index), 64)
        THEN /\ DescriptorField(LastWrite.data,
                                SourceDescriptorOffset(dump.metadata_index) + 32)
                  = LittleEndian(CompactBlockNumber1, 8)
             /\ DescriptorField(LastWrite.data,
                                SourceDescriptorOffset(dump.metadata_index) + 40)
                  = LittleEndian(CompactBlockNumber2, 8)
        ELSE LastWrite.data = SourceMetadata(disk.image, dump.metadata_index)

\* The statement of C16 with "valid" read as: the descriptor's 48 bytes lie
\* inside the block.
C16_InBoundsDescriptorsRewritten ==
    CorrectedMetadataWritten =>
        IF /\ SourceDescriptorOffset(dump.metadata_index) > 64
           /\ SourceDescriptorOffset(dump.metadata_index) + 48 <= dump_handle.metadata_size
        THEN /\ DescriptorField(LastWrite.data,
                                SourceDescriptorOffset(dump.metadata_index) + 32)
                  = LittleEndian(CompactBlockNumber1, 8)
             /\ DescriptorField(LastWrite.data,
                                SourceDescriptorOffset(dump.metadata_index) + 40)
                  = LittleEndian(CompactBlockNumber2, 8)
        ELSE LastWrite.data = SourceMetadata(disk.image, dump.metadata_index)

\* The destination offset of the first write whose bytes were read at
\* source_offset of the source, or -1 when there is none.
CopiedAt(source_offset) ==
    LET copies == {k \in 1 .. Len(disk.destination.writes) :
                       disk.destination.writes[k].source_offset = source_offset}
    IN  IF copies = {} THEN -1
        ELSE disk.destination.writes[CHOOSE k \in copies : \A other \in copies : k <= other].offset

\* The descriptor of metadata copy metadata_index (1..4) lies inside the block.
DescriptorInBlock(metadata_index) ==
    /\ SourceDescriptorOffset(metadata_index) > 64
    /\ SourceDescriptorOffset(metadata_index) + 48 <= dump_handle.metadata_size

\* A compact dump has returned 1.
CompactDumpComplete ==
    /\ dump_handle.compact # 0
    /\ dump.pc = "close"

\* C17: after a compact dump, in every rewritten metadata block the block
\* number of encrypted metadata N times block_size is the destination
\* offset at which region N of the source was copied, for N = 1 and N = 2
\* and whichever of the two regions the source has.
C17_BlockNumbersNameTheRegions ==
    CompactDumpComplete =>
        \A metadata_index \in 1 .. 4 :
            DescriptorInBlock(metadata_index) =>
                LET data == disk.destination.writes[metadata_index + 1].data
                    descriptor == SourceDescriptorOffset(metadata_index)
                IN  /\ dump_handle.encrypted_metadata1_offset # 0 =>
                          Number(Bytes(data, descriptor + 32, 8)) * dump_handle.block_size
                            = CopiedAt(dump_handle.encrypted_metadata1_offset)
                    /\ dump_handle.encrypted_metadata2_offset # 0 =>
                          Number(Bytes(data, descriptor + 40, 8)) * dump_handle.block_size
                            = CopiedAt(dump_handle.encrypted_metadata2_offset)

\* Every write that copied bytes of [source_offset, source_offset + size)
\* of the source put them at the same distance from destination_offset, and
\* together they fill [destination_offset, destination_offset + size).
RegionCopiedTo(source_offset, destination_offset, size) ==
    /\ WrittenInside(disk.destination.writes, destination_offset, size) = size
    /\ \A k \in 1 .. Len(disk.destination.writes) :
          LET write == disk.destination.writes[k]
          IN  (write.offset >= destination_offset /\ write.offset < destination_offset + size)
                  => write.source_offset - source_offset = write.offset - destination_offset

\* No two writes of the destination share a byte.
WritesDisjoint ==
    \A k, l \in 1 .. Len(disk.destination.writes) :
        k < l => LET first == disk.destination.writes[k]
                     second == disk.destination.writes[l]
                 IN  \/ first.offset + first.size <= second.offset
                     \/ second.offset + second.size <= first.offset

\* A compact dump of a source with both encrypted metadata regions has returned 1.
CompactDumpOfBothRegions ==
    /\ CompactDumpComplete
    /\ dump_handle.encrypted_metadata1_offset # 0
    /\ dump_handle.encrypted_metadata2_offset # 0

\* The destination is block_size + 4 * metadata_size + 2 *
\* encrypted_metadata_size bytes long: the header at 0, metadata copy i at
\* block_size + i * metadata_size, then region 1 and region 2, one after
\* the other.
CompactLayout ==
    LET block_size == dump_handle.block_size
        metadata_size == dump_handle.metadata_size
        encrypted_metadata_size == dump_handle.encrypted_metadata_size
    IN  /\ disk.destination.length
             = block_size + 4 * metadata_size + 2 * encrypted_metadata_size
        /\ disk.destination.writes[1].offset = 0
        /\ disk.destination.writes[1].size = FVDE_VOLUME_HEADER_SIZE
        /\ \A metadata_index \in 0 .. 3 :
              /\ disk.destination.writes[metadata_index + 2].offset
                   = block_size + metadata_index * metadata_size
              /\ disk.destination.writes[metadata_index + 2].size = metadata_size
        /\ RegionCopiedTo(dump_handle.encrypted_metadata1_offset,
                          block_size + 4 * metadata_size, encrypted_metadata_size)
        /\ RegionCopiedTo(dump_handle.encrypted_metadata2_offset,
                          block_size + 4 * metadata_size + encrypted_metadata_size,
                          encrypted_metadata_size)

SourceRegions ==
    {[offset |-> 0, size |-> FVDE_VOLUME_HEADER_SIZE]}
      \cup {[offset |-> dump_handle.metadata_offsets[metadata_index],
             size |-> dump_handle.metadata_size] : metadata_index \in 1 .. 4}
      \cup {[offset |-> offset, size |-> dump_handle.encrypted_metadata_size] :
               offset \in {dump_handle.encrypted_metadata1_offset,
                           dump_handle.encrypted_metadata2_offset} \ {0}}

\* C19: in sparse mode the destination is given the length
\* physical_volume_size, every write puts bytes of one of the source's regions
\* at the offset they have in the source, and a dump that returned 1 has
\* written each region whole.
C19_SparseInPlace ==
    (dump_handle.compact = 0 /\ dump_handle.destination_fd # -1) =>
        /\ \A k \in 1 .. Len(disk.destination.writes) :
              LET write == disk.destination.writes[k]
              IN  /\ write.source_offset = write.offset
                  /\ \E region \in SourceRegions :
                        /\ region.offset <= write.offset
                        /\ write.offset + write.size <= region.offset + region.size
        /\ (dump.pc # "dump" =>
                disk.destination.length = dump_handle.physical_volume_size)
        /\ (dump.pc = "close" =>
                \A region \in SourceRegions :
                    RegionCopiedTo(region.offset, region.offset, region.size))

\* A sparse dump over an existing file, of a source with both encrypted
\* metadata regions, has returned 1.
C19_Witness ==
    /\ dump_handle.compact = 0
    /\ dump_handle.force = 1
    /\ dump.pc = "close"
    /\ dump_handle.encrypted_metadata1_offset # 0
    /\ dump_handle.encrypted_metadata2_offset # 0
    /\ Len(disk.destination.writes) = 11

\* main has called dump_handle_open_destination in this step.
OpenDestinationReturned ==
    /\ dump.pc = "open_destination"
    /\ dump'.pc # "open_destination"

C20_WitnessForced ==
    /\ dump.pc = "dump"
    /\ dump_handle.force = 1
    /\ dump_handle.destination_fd # -1
    /\ disk.destination.length = 0
    /\ disk.image.name = "standard"

\* ----------------------------------------------------------------- C21
\* C21: at every return of keyring_handle_add_key taken after the master key
\* or the tweak key was copied into combined_key (a successful add, a rejected
\* keyring id, a failed add_key), the 48 bytes of combined_key are zero; and
\* key_data of the check handle is all zero after a failed
\* check_handle_set_key and after check_handle_free.
C21_KeyBuffersZeroed ==
    /\ (dmsetup.add_key.called /\ dmsetup.add_key.copied)
           => dmsetup.add_key.combined_key = Zeros(48)
    /\ (check_handle.rc = -1) => check_handle.key_data = Zeros(16)
    /\ (~check_handle.allocated) => check_handle.key_data = Zeros(16)

\* The part of C21 about the check handle alone
C21_CheckHandleKeyZeroed ==
    /\ (check_handle.rc = -1) => check_handle.key_data = Zeros(16)
    /\ (~check_handle.allocated) => check_handle.key_data = Zeros(16)

\* ----------------------------------------------------------------- C22
\* The line section 6.3 of the specification gives for logical volume number
\* volume_index (1-based) of the run
TableLine(volume_index) ==
    LET logical_volume == dmsetup.logical_volumes[volume_index]
        options == dmsetup.options
        target == [start |-> 0, size_in_sectors |-> logical_volume.size \div 512,
                   type |-> "crypt", cipher |-> "aes-xts-plain64",
                   key |-> ":48:logon:fvde:" \o
                           keyring_handle_format_uuid_string(logical_volume.identifier, 16, 37).uuid_string,
                   iv_offset |-> 0, source_path |-> options.source_path.string,
                   offset_in_sectors |-> options.volume_offset \div 512]
        mapper_name == IF ~options.mapper_name.null THEN options.mapper_name.string
                       ELSE IF logical_volume.name # "" THEN logical_volume.name
                       ELSE "fvde"
    IN  IF options.shell_mode # 0
        THEN [echo |-> target,
              dmsetup_create |-> [mapper_name |-> mapper_name, volume_index |-> volume_index]]
        ELSE [table |-> target]

\* The lines of the unlocked logical volumes numbered first .. last, in
\* enumeration order
RECURSIVE TableLines(_, _)
TableLines(first, last) ==
    IF first > last THEN <<>>
    ELSE IF dmsetup.logical_volumes[first].is_locked # 0 THEN TableLines(first + 1, last)
    ELSE <<TableLine(first)>> \o TableLines(first + 1, last)

LockedVolumes ==
    {i \in 1 .. Len(dmsetup.logical_volumes) : dmsetup.logical_volumes[i].is_locked # 0}

\* The number of the first logical volume that is locked, or the number after
\* the last one
FirstLocked ==
    IF LockedVolumes = {} THEN Len(dmsetup.logical_volumes) + 1
    ELSE CHOOSE i \in LockedVolumes : \A j \in LockedVolumes : i <= j

KeyDescription(volume_index) ==
    "fvde:" \o keyring_handle_format_uuid_string(dmsetup.logical_volumes[volume_index].identifier, 16, 37).uuid_string

\* The run has ended and no add to the keyring failed in it.
DmsetupEndedWithoutFailedAdd == dmsetup.pc = "exit" /\ dmsetup.add_key.rc # -1

C22_WitnessTwoLines ==
    /\ DmsetupEndedWithoutFailedAdd
    /\ dmsetup.rc = "EXIT_SUCCESS"
    /\ Len(dmsetup.stdout) = 2
    /\ dmsetup.options.shell_mode = 1
    /\ dmsetup.stdout[2].dmsetup_create.volume_index = 2

\* ----------------------------------------------------------------- C23
\* C23: in every volume state the Volume Walker produces, every Allocated
\* extent satisfies logical_block_start + physical_block_count <=
\* size_in_blocks of its logical volume.
C23_AllocatedInsideLogicalVolume ==
    \A e \in Extents :
        heap[e].state = FVDECHECK_EXTENT_STATE_ALLOCATED =>
            heap[e].logical_block_start + heap[e].physical_block_count
                <= volume_state.logical_volumes[heap[e].logical_volume_index].size_in_blocks

\* ----------------------------------------------------------------- C24
\* A step of the compact dump that writes a metadata block
WritesMetadataBlock ==
    /\ dump_handle.compact # 0
    /\ dump.pc = "metadata"
    /\ disk'.destination # disk.destination

\* A step of the Volume Walker that starts the walk of a logical volume
StartsLogicalVolumeWalk ==
    /\ walk'.pc = "segments"
    /\ walk.pc # "segments" \/ walk'.lv # walk.lv

\* C24: once the abort flag of the dump handle is set, a compact dump writes
\* no further metadata block: the loop over the four metadata blocks tests the
\* flag at the start of every block and returns the abort-requested error
\* there. (The Volume Walker, likewise, starts no further logical-volume walk:
\* C24_AbortStopsTheWalker.)
C24_AbortStopsMetadataBlocks ==
    [][(dump_handle.abort # 0) => ~WritesMetadataBlock]_vars

\* C24, the Volume Walker: once the abort flag of the check handle is set, no
\* further logical-volume walk starts.
C24_AbortStopsTheWalker ==
    [][(check_handle.abort # 0) => ~StartsLogicalVolumeWalk]_vars

\* ----------------------------------------------------------------- C25
\* The transaction identifier of metadata copy metadata_index (1..4) of the source
SourceTransactionIdentifier(metadata_index) ==
    Number(Bytes(SourceMetadata(disk.image, metadata_index), 16, 8))

\* The metadata copy with the largest transaction identifier (the first of
\* them, should two copies carry it)
LargestTransactionCopy ==
    CHOOSE i \in 1 .. 4 :
        /\ \A j \in 1 .. 4 : SourceTransactionIdentifier(j) <= SourceTransactionIdentifier(i)
        /\ \A j \in 1 .. (i - 1) : SourceTransactionIdentifier(j) < SourceTransactionIdentifier(i)

\* dump_handle_read_metadata has just returned 1.
ReadMetadataReturned == dump.pc = "open_destination"

\* C25: after dump_handle_read_metadata the stored encrypted-metadata size and
\* the two encrypted-metadata byte offsets are those of the volume-groups
\* descriptor of the metadata copy with the largest transaction identifier
\* (block numbers with the high 16 bits masked off, times block_size); when
\* the descriptor offset of that copy is <= 64, the size and both offsets are 0
\* whatever the other three copies contain.
C25_DescriptorOfTheLargestTransaction ==
    ReadMetadataReturned =>
        LET best == LargestTransactionCopy
            metadata_data == SourceMetadata(disk.image, best)
            offset == SourceDescriptorOffset(best)
        IN  IF DescriptorInBlock(best)
            THEN /\ dump_handle.encrypted_metadata_size =
                        Number(DescriptorField(metadata_data, offset + 8)) * dump_handle.block_size
                 /\ dump_handle.encrypted_metadata1_offset =
                        Number(SubSeq(DescriptorField(metadata_data, offset + 32), 1, 6))
                            * dump_handle.block_size
                 /\ dump_handle.encrypted_metadata2_offset =
                        Number(SubSeq(DescriptorField(metadata_data, offset + 40), 1, 6))
                            * dump_handle.block_size
            ELSE (offset <= 64) =>
                 /\ dump_handle.encrypted_metadata_size = 0
                 /\ dump_handle.encrypted_metadata1_offset = 0
                 /\ dump_handle.encrypted_metadata2_offset = 0

\* The first half of C25 alone: the values of a copy that has a descriptor
C25_DescriptorValuesRead ==
    (ReadMetadataReturned /\ DescriptorInBlock(LargestTransactionCopy)) =>
        LET metadata_data == SourceMetadata(disk.image, LargestTransactionCopy)
            offset == SourceDescriptorOffset(LargestTransactionCopy)
        IN  /\ dump_handle.encrypted_metadata_size =
                   Number(DescriptorField(metadata_data, offset + 8)) * dump_handle.block_size
            /\ dump_handle.encrypted_metadata1_offset =
                   Number(SubSeq(DescriptorField(metadata_data, offset + 32), 1, 6))
                       * dump_handle.block_size
            /\ dump_handle.encrypted_metadata2_offset =
                   Number(SubSeq(DescriptorField(metadata_data, offset + 40), 1, 6))
                       * dump_handle.block_size

\* ----------------------------------------------------------------- C26
\* C26: every extent stored by mark_reserved, mark_free or mark_allocated,
\* and every extent of a state the Volume Walker produces (the reserved
\* metadata regions of metadata_size / block_size blocks and the allocations
\* taken from the segment descriptors included), has physical_block_count > 0.
C26_ExtentsNotEmpty ==
    \A e \in Extents : heap[e].physical_block_count > 0

\* ----------------------------------------------------------------- C27
\* The list of physical volume pv is a sound doubly-linked list between its
\* head and its tail.
PhysListSound(pv) ==
    LET list == PhysList(pv)
        head == volume_state.physical_volumes[pv].extent_list_head
        tail == volume_state.physical_volumes[pv].extent_list_tail
    IN  /\ (head = NULL) <=> (tail = NULL)
        /\ Len(list) <= Len(heap)
        /\ \A i, j \in 1 .. Len(list) : i # j => list[i] # list[j]
        /\ head # NULL =>
              /\ heap[head].phys_prev = NULL
              /\ heap[tail].phys_next = NULL
              /\ list[1] = head
              /\ list[Len(list)] = tail
        /\ \A i \in 1 .. Len(list) :
              heap[list[i]].phys_next # NULL
                  => heap[heap[list[i]].phys_next].phys_prev = list[i]

\* The same for the list of logical volume lv
LogicalListSound(lv) ==
    LET list == LogicalList(lv)
        head == volume_state.logical_volumes[lv].extent_list_head
        tail == volume_state.logical_volumes[lv].extent_list_tail
    IN  /\ (head = NULL) <=> (tail = NULL)
        /\ Len(list) <= Len(heap)
        /\ \A i, j \in 1 .. Len(list) : i # j => list[i] # list[j]
        /\ head # NULL =>
              /\ heap[head].logical_prev = NULL
              /\ heap[tail].logical_next = NULL
              /\ list[1] = head
              /\ list[Len(list)] = tail
        /\ \A i \in 1 .. Len(list) :
              heap[list[i]].logical_next # NULL
                  => heap[heap[list[i]].logical_next].logical_prev = list[i]

ListMembers(list) == {list[i] : i \in 1 .. Len(list)}

RECURSIVE SumOfListLengths(_)
SumOfListLengths(S) ==
    IF S = {} THEN 0
    ELSE LET pv == CHOOSE x \in S : TRUE
         IN  Len(PhysList(pv)) + SumOfListLengths(S \ {pv})

\* C27: after any sequence of mark operations the lists are sound: for each
\* physical volume head.phys_prev and tail.phys_next are NULL,
\* x.phys_next.phys_prev = x for every extent with a successor, following
\* phys_next from the head ends at the tail and visits exactly the extents
\* marked on that volume, whose number summed over the volumes is
\* total_extents; the same holds for the list of each logical volume through
\* logical_prev and logical_next.
C27_ListsSound ==
    /\ \A pv \in PVs :
          /\ PhysListSound(pv)
          /\ ListMembers(PhysList(pv)) = {e \in Extents : heap[e].physical_volume_index = pv}
    /\ SumOfListLengths(PVs) = volume_state.total_extents
    /\ \A lv \in LVs :
          /\ LogicalListSound(lv)
          /\ ListMembers(LogicalList(lv)) =
                 {e \in Extents : /\ heap[e].state = FVDECHECK_EXTENT_STATE_ALLOCATED
                                  /\ heap[e].logical_volume_index = lv}

\* Three extents were marked on one physical volume, the last one marked
\* became the head of its list and another one was linked between two
\* extents; a logical list holds two extents, the later one first.
C27_Witness ==
    /\ volume_state.total_extents = 3
    /\ \E pv \in PVs :
          LET l == PhysList(pv) IN
          /\ Len(l) = 3
          /\ l[1] = 3
          /\ heap[l[2]].phys_prev = 3
    /\ \E lv \in LVs :
          LET l == LogicalList(lv) IN
          /\ Len(l) = 2
          /\ l[1] > l[2]

\* ----------------------------------------------------------------- C28
\* C28: dump_handle_read_metadata and dump_handle_write_corrected_metadata
\* read and write only byte indices below metadata_size of their metadata
\* buffer (the descriptor fields at offset + 8, + 32 and + 40 and the range of
\* the checksum), for every metadata_size > 0 the header declares and every
\* volume_groups_descriptor_offset a block stores.
C28_AccessesInsideTheBuffer ==
    \A access \in dump.accesses :
        InBuffer(access.index, access.size, dump_handle.metadata_size)

\* The accesses of dump_handle_read_metadata alone
C28_ReadMetadataInsideTheBuffer ==
    (dump.pc = "open_destination") => C28_AccessesInsideTheBuffer

\* The accesses of dump_handle_write_corrected_metadata alone
C28_WriteCorrectedMetadataInsideTheBuffer ==
    (dump.pc \in {"metadata", "encrypted_metadata1"} /\ dump.metadata_index >= 1)
        => C28_AccessesInsideTheBuffer

\* ----------------------------------------------------------------- C30
\* check_handle_open has returned 1.
CheckHandleOpened == walk.pc \notin {"api", "open_pv", "open_lv", "error"}

\* C30: after check_handle_open succeeds, volume_state.block_size equals the
\* block size declared in the header of the opened volume, so that every
\* conversion using it (the volume sizes in blocks, the start and the count
\* of the reserved metadata regions, the Linux sector lookup) is computed
\* with the block size of the volume.
C30_BlockSizeOfTheHeader ==
    CheckHandleOpened => volume_state.block_size = walk.volume_header.block_size

\* The crypt target of a line of the output
TargetOfLine(line) == IF "echo" \in DOMAIN line THEN line.echo ELSE line.table

\* The keyring holds a logon key of the description the line names, whose
\* payload is the 16 bytes of the master key of logical volume volume_index
\* followed by the 32 bytes of its tweak key.
KeyOfLineInKeyring(line, volume_index) ==
    \E k \in 1 .. Len(keyring) :
        /\ keyring[k].type = "logon"
        /\ TargetOfLine(line).key = ":48:logon:" \o keyring[k].description
        /\ keyring[k].description = KeyDescription(volume_index)
        /\ Len(keyring[k].payload) = 48
        /\ SubSeq(keyring[k].payload, 1, 16) = dmsetup.logical_volumes[volume_index].volume_master_key
        /\ SubSeq(keyring[k].payload, 17, 48) = dmsetup.logical_volumes[volume_index].volume_tweak_key

\* C29: outside dry-run every table line fvdedmsetup has emitted names a key
\* fvde:<uuid> that is in the keyring under exactly that description with the
\* 48-byte payload master key (16) followed by tweak key (32); when the add
\* has failed no line names the key of that volume; and in dry-run lines are
\* emitted while nothing is inserted into the keyring.
C29_KeyAddedBeforeTheLine ==
    /\ \A j \in 1 .. Len(dmsetup.stdout) :
           /\ TargetOfLine(dmsetup.stdout[j]).key = ":48:logon:" \o KeyDescription(j)
           /\ dmsetup.options.dry_run = 0 => KeyOfLineInKeyring(dmsetup.stdout[j], j)
    /\ dmsetup.add_key.rc = -1 =>
           /\ Len(dmsetup.stdout) = dmsetup.logical_volume_index
           /\ \A j \in 1 .. Len(dmsetup.stdout) :
                  TargetOfLine(dmsetup.stdout[j]).key #
                      ":48:logon:" \o KeyDescription(dmsetup.logical_volume_index + 1)
    /\ (dmsetup.pc # "idle" /\ dmsetup.options.dry_run # 0) =>
           /\ keyring = <<>>
           /\ ~dmsetup.add_key.called

\* A run outside dry-run has emitted the line of its first logical volume
\* after adding its key, and has emitted none for the second, whose add
\* failed.
C29_Witness ==
    /\ dmsetup.pc = "exit"
    /\ dmsetup.options.dry_run = 0
    /\ Len(dmsetup.logical_volumes) = 2
    /\ Len(dmsetup.stdout) = 1
    /\ Len(keyring) = 1
    /\ keyring[1].payload = MasterKey(1) \o TweakKey(1)
    /\ dmsetup.add_key.rc = -1
    /\ dmsetup.add_key.path = "unable to add key to keyring"

\* A run in dry-run has emitted a line and the keyring is empty.
C29_WitnessDryRun ==
    /\ dmsetup.pc = "exit"
    /\ dmsetup.options.dry_run # 0
    /\ Len(dmsetup.stdout) = 2
    /\ keyring = <<>>

====
